---- MODULE Spec2Model ----
(***************************************************************************)
(* Incident lifecycle and moderation pipeline of the Spot Samachar backend. *)
(* The store (Prisma tables) is the state; each route handler is an action, *)
(* and the moderation decision handler is split at its awaits so that two   *)
(* moderators' requests interleave as they do on the server.               *)
(***************************************************************************)
EXTENDS Integers, Sequences, FiniteSets, Bags, TLC

\* ------------------------------------------------------------------ bounds
MaxDecisions == 2
MaxReviews == 1
MaxViews == 1
\* POST /incidents requests received, by the steps of the handler
MaxPosts == 7
\* POST /send-otp requests, verifyOTP calls and advances of the clock
MaxSends == 7
MaxVerifies == 5
MaxTicks == 2

\* --------------------------------------------------------------- constants
\* users.credibilityScore INTEGER NOT NULL DEFAULT 50
DefaultCredibility == 50
\* config.citizenDailyLimit / config.verifiedReporterDailyLimit
citizenDailyLimit == 2
verifiedReporterDailyLimit == 5
\* otp-store: milliseconds, attempts and requests
OTP_EXPIRY == 300000
MAX_ATTEMPTS == 3
RATE_LIMIT_WINDOW == 3600000
MAX_REQUESTS_PER_HOUR == 5
\* setInterval(cleanupExpiredOTPs, 10 * 60 * 1000)
SweepInterval == 600000

None == "none"

Publishers == {"u1", "u2"}
Mods == {"m1", "m2"}
Officers == {"p1"}
UserIds == Publishers \cup Mods \cup Officers
Anonymous == "anonymous"
Readers == {Anonymous, "u1", "u2", "m1"}

StationIds == {"s1", "s2"}
Coords == {0, 1}
IncidentIds == {"i1"}
ReportIds == {"r1"}

\* the five-state enumeration of incidents.status
IncidentStatuses == {"DRAFT", "SUBMITTED", "VERIFIED", "REJECTED", "TAKEN_DOWN"}
\* values a client may put in the body of a decision
RequestedStatuses == {"VERIFIED", "REJECTED", "TAKEN_DOWN", "SUBMITTED", "BOGUS"}
Notes == {None, "note"}

VARIABLES
    users,            \* users table: role, isActive, credibilityScore, policeStationId
    policeStations,   \* police_stations table: latitude, longitude, isActive
    incidents,        \* incidents table, a function on the ids of the stored rows
    usedIds,          \* the ids given out so far: an id is never reused
    reports,          \* reports table, a function on the ids of the stored rows
    notifications,    \* notifications table, a bag of [userId, type]
    auditLog,         \* audit_logs table in insertion order
    dailyPostTracker, \* daily_post_tracker.postCount of today, per user
    pc,               \* position of each moderator's decision request
    req,              \* its params and body
    incident,         \* its `incident` local (the row read by findUnique)
    policeStationId,  \* its `policeStationId` local
    decisions,        \* number of decision requests that reached the store
    reviews,          \* number of report reviews that reached the store
    resp,             \* the response sent by the last step, if it sent one
    post,             \* POST /incidents requests in progress: position, user, body
    posts,            \* number of POST /incidents requests received
    otpStore,         \* otpStore Map: email -> otp, attempts, createdAt, expiresAt
    rateLimitStore,   \* rateLimitStore Map: email -> count, resetAt
    now,              \* Date.now(), in milliseconds
    sends,            \* number of POST /send-otp requests received
    verifies,         \* number of verify requests received (calls of verifyOTP)
    ticks,            \* number of times the clock was advanced
    outbox,           \* the code last handed to sendOTPEmail, per address
    login,            \* POST /auth/verify-otp requests in progress
    accounts,         \* users table rows of the addresses that sign in by code
    change,           \* PUT and DELETE /incidents/:id requests in progress
    removal,          \* the DELETE /admin/police-stations/:id request in progress
    mail,             \* number of sendOTPEmail promises not settled yet
    mailErrors,       \* number of console.error lines about a mail that failed
    tokens            \* payloads of the access tokens issued: userId and role

dbVars == <<users, policeStations, incidents, usedIds, reports,
            notifications, auditLog, dailyPostTracker>>
procVars == <<pc, req, incident, policeStationId>>
\* the state of the submission requests in progress and of the two limiters'
\* stores
limitVars == <<post, posts, otpStore, rateLimitStore, now, sends, verifies, ticks>>
vars == <<users, policeStations, incidents, usedIds, reports,
          notifications, auditLog, dailyPostTracker,
          pc, req, incident, policeStationId, decisions, reviews, resp,
          post, posts, otpStore, rateLimitStore, now, sends, verifies, ticks,
          outbox, login, accounts, change, removal, mail, mailErrors,
          tokens>>
\* the one-time-code sign-in (mail handed out, requests in progress, accounts)
\* and the publisher's edit and delete requests in progress
\* the office removal in progress, the mail being delivered behind the
\* requests and the tokens handed out
sideVars == <<removal, mail, mailErrors, tokens>>
reqVars == <<outbox, login, accounts, change, sideVars>>

\* ----------------------------------------------------------------- helpers
\* JavaScript truthiness of a number (0 is falsy) and of a nullable id
TruthyNum(n) == n # 0
TruthyId(x) == x # None

Abs(n) == IF n < 0 THEN -n ELSE n

\* The value JavaScript gives Math.sqrt(1 - a) when a > 1, and everything
\* computed from it: not a number.  Distances are >= 0, so -1 is free.
NaN == -1

\* JavaScript d < m on numbers: false as soon as one operand is NaN
Less(d, m) == d # NaN /\ m # NaN /\ d < m

\* Haversine distance with R = 6371 km, in metres (values of the JavaScript
\* formula in IEEE-754 double arithmetic, rounded to the metre), tabulated on
\* the integer-degree grid Coords x Coords and on the far points of the
\* resolver grid.  For the antipodal pair (-82, -180), (82, 0) the sum a
\* rounds to 1.0000000000000002, Math.sqrt(1 - a) is NaN and so is the
\* distance: the formula does not clamp a to [0, 1].
calculateDistance(lat1, lon1, lat2, lon2) ==
    LET dLat == Abs(lat2 - lat1)
        dLon == Abs(lon2 - lon1)
    IN  CASE dLat = 0 /\ dLon = 0 -> 0
          [] dLat = 1 /\ dLon = 0 -> 111195
          [] dLat = 0 /\ dLon = 1 -> IF lat1 = 0 THEN 111195 ELSE 111178
          [] dLat = 164 /\ dLon = 180 /\ lat1 + lat2 = 0 -> NaN
          [] dLat = 82 /\ dLon = 0 -> 9117984
          [] dLat = 81 /\ dLon = 1 -> 9006926
          [] dLat = 82 /\ dLon = 181 -> 10896966
          [] dLat = 83 /\ dLon = 180 -> 11008298
          [] OTHER -> 157249

\* order in which findMany returns the stations
StationOrder == <<"s1", "s2", "s3">>

\* prisma.policeStation.findMany({ where: { isActive: true } })
ActiveStations(ps) ==
    SelectSeq(StationOrder, LAMBDA s : s \in DOMAIN ps /\ ps[s].isActive)

\* the loop of findNearestPoliceStation from the second station on; the
\* distance of the station kept so far is minDistance
RECURSIVE NearestScan(_, _, _, _, _, _)
NearestScan(all, i, lat, lon, best, ps) ==
    IF i > Len(all) THEN best
    ELSE LET d == calculateDistance(lat, lon, ps[all[i]].latitude, ps[all[i]].longitude)
             m == calculateDistance(lat, lon, ps[best].latitude, ps[best].longitude)
         IN  NearestScan(all, i + 1, lat, lon, IF Less(d, m) THEN all[i] ELSE best, ps)

\* findNearestPoliceStation: None when no station is active
findNearestPoliceStation(lat, lon, ps) ==
    LET all == ActiveStations(ps)
    IN  IF Len(all) = 0 THEN None
        ELSE NearestScan(all, 2, lat, lon, all[1], ps)

Notification(u, t) == [userId |-> u, type |-> t]

\* a request's locals before it starts and after it has answered
NoReq == [id |-> None, status |-> None, verificationNote |-> None]
NoRow == [status |-> None]
NoResp == [op |-> None]

\* the POST /incidents requests that can be in progress at once, and a slot
\* without a request
Slots == {"a", "b"}
NoPost == [pc |-> "idle", userId |-> None, latitude |-> 0, longitude |-> 0]
\* a slot without a POST /auth/verify-otp request
NoLogin == [pc |-> "idle", email |-> None, name |-> None, role |-> None]
\* a slot without a PUT or DELETE /incidents/:id request
NoChange == [pc |-> "idle", userId |-> None, id |-> None, status |-> None]
\* no DELETE /admin/police-stations/:id request
NoRemoval == [pc |-> "idle", id |-> None]

\* ------------------------------------------------------------------- Init
InitUsers ==
    /\ users = [u \in UserIds |->
                  [role |-> CASE u = "u1" -> "CITIZEN"
                              [] u = "u2" -> "VERIFIED_REPORTER"
                              [] u = "m1" -> "ADMIN"
                              [] u = "m2" -> "MODERATOR"
                              [] OTHER -> "POLICE",
                   isActive |-> TRUE,
                   credibilityScore |-> DefaultCredibility,
                   policeStationId |-> IF u \in Officers THEN "s2" ELSE None]]

\* nothing submitted, requested or sent yet
InitEmpty ==
    /\ incidents = << >>
    /\ usedIds = {}
    /\ reports = << >>
    /\ notifications = EmptyBag
    /\ auditLog = << >>
    /\ dailyPostTracker = [u \in UserIds |-> 0]
    /\ pc = [m \in Mods |-> "idle"]
    /\ req = [m \in Mods |-> NoReq]
    /\ incident = [m \in Mods |-> NoRow]
    /\ policeStationId = [m \in Mods |-> None]
    /\ decisions = 0
    /\ reviews = 0
    /\ post = [s \in Slots |-> NoPost]
    /\ posts = 0
    /\ otpStore = << >>
    /\ rateLimitStore = << >>
    /\ now = 0
    /\ sends = 0
    /\ verifies = 0
    /\ ticks = 0
    /\ outbox = << >>
    /\ login = [s \in Slots |-> NoLogin]
    /\ accounts = << >>
    /\ change = [s \in Slots |-> NoChange]
    /\ removal = NoRemoval
    /\ mail = 0
    /\ mailErrors = 0
    /\ tokens = {}
    /\ resp = NoResp

Init ==
    /\ InitUsers
    /\ policeStations = [s \in StationIds |->
                  [latitude |-> IF s = "s1" THEN 0 ELSE 1,
                   longitude |-> IF s = "s1" THEN 0 ELSE 1,
                   isActive |-> TRUE]]
    /\ InitEmpty


\* --------------------------------------------------- publisher-side routes
IsModeratorTier(role) == role \in {"ADMIN", "MODERATOR"}

\* checkPostLimit: the daily ceiling of a role
PostLimit(role) ==
    IF role = "VERIFIED_REPORTER" THEN verifiedReporterDailyLimit ELSE citizenDailyLimit

\* the station scan of POST /incidents: nearestStation starts as null and
\* minDistance as Infinity, so the first station is taken when its distance
\* is a number (distance < Infinity) and a later one when it is strictly
\* nearer than the station kept so far
RECURSIVE StationScan(_, _, _, _, _, _)
StationScan(all, i, lat, lon, best, ps) ==
    IF i > Len(all) THEN best
    ELSE LET d == calculateDistance(lat, lon, ps[all[i]].latitude, ps[all[i]].longitude)
             closer == IF best = None THEN d # NaN
                       ELSE Less(d, calculateDistance(lat, lon, ps[best].latitude,
                                                      ps[best].longitude))
         IN  StationScan(all, i + 1, lat, lon, IF closer THEN all[i] ELSE best, ps)

nearestStation(lat, lon, ps) == StationScan(ActiveStations(ps), 1, lat, lon, None, ps)

NewIncident(u, lat, lon, ps) ==
    [status |-> "SUBMITTED",
     publisherId |-> u,
     latitude |-> lat,
     longitude |-> lon,
     policeStationId |-> nearestStation(lat, lon, ps),
     verificationNote |-> None,
     verifiedAt |-> None,
     verifiedBy |-> None,
     viewCount |-> 0]

\* POST /incidents: checkPostLimit, create, incrementPostCount
Submit(u, lat, lon) ==
    /\ users[u].isActive
    /\ usedIds # IncidentIds
    /\ IF dailyPostTracker[u] >= PostLimit(users[u].role)
       THEN /\ resp' = [op |-> "submit", code |-> 429]
            /\ UNCHANGED <<incidents, usedIds, dailyPostTracker>>
       ELSE /\ \E id \in IncidentIds \ usedIds :
                  /\ incidents' = incidents @@
                         (id :> NewIncident(u, lat, lon, policeStations))
                  /\ usedIds' = usedIds \cup {id}
            /\ dailyPostTracker' = [dailyPostTracker EXCEPT ![u] = @ + 1]
            /\ resp' = [op |-> "submit", code |-> 201]
    /\ UNCHANGED <<users, policeStations, reports, notifications, auditLog,
                   decisions, reviews>>
    /\ UNCHANGED procVars
    /\ UNCHANGED limitVars
    /\ UNCHANGED reqVars

EditableStatuses == {"DRAFT", "SUBMITTED", "REJECTED"}

\* PUT /incidents/:id
Edit(u, id) ==
    /\ users[u].isActive
    /\ IF id \notin DOMAIN incidents
       THEN resp' = [op |-> "edit", code |-> 404] /\ UNCHANGED incidents
       ELSE IF incidents[id].publisherId # u
       THEN resp' = [op |-> "edit", code |-> 403] /\ UNCHANGED incidents
       ELSE IF incidents[id].status \notin EditableStatuses
       THEN resp' = [op |-> "edit", code |-> 400] /\ UNCHANGED incidents
       ELSE /\ incidents' = [incidents EXCEPT ![id].status = "SUBMITTED"]
            /\ resp' = [op |-> "edit", code |-> 200]
    /\ UNCHANGED <<users, policeStations, usedIds, reports, notifications,
                   auditLog, dailyPostTracker, decisions, reviews>>
    /\ UNCHANGED procVars
    /\ UNCHANGED limitVars
    /\ UNCHANGED reqVars

\* rows of a table without the row of key k (and ON DELETE CASCADE of reports)
Without(f, k) == [x \in DOMAIN f \ {k} |-> f[x]]
ReportsWithoutIncident(rs, id) ==
    [r \in {x \in DOMAIN rs : rs[x].incidentId # id} |-> rs[r]]

\* DELETE /incidents/:id
Delete(u, id) ==
    /\ users[u].isActive
    /\ IF id \notin DOMAIN incidents
       THEN resp' = [op |-> "delete", code |-> 404] /\ UNCHANGED <<incidents, reports>>
       ELSE IF incidents[id].publisherId # u /\ ~IsModeratorTier(users[u].role)
       THEN resp' = [op |-> "delete", code |-> 403] /\ UNCHANGED <<incidents, reports>>
       ELSE IF incidents[id].status = "VERIFIED" /\ ~IsModeratorTier(users[u].role)
       THEN resp' = [op |-> "delete", code |-> 400] /\ UNCHANGED <<incidents, reports>>
       ELSE /\ incidents' = Without(incidents, id)
            /\ reports' = ReportsWithoutIncident(reports, id)
            /\ resp' = [op |-> "delete", code |-> 200]
    /\ UNCHANGED <<users, policeStations, usedIds, notifications,
                   auditLog, dailyPostTracker, decisions, reviews>>
    /\ UNCHANGED procVars
    /\ UNCHANGED limitVars
    /\ UNCHANGED reqVars

\* optionalAuth: req.user is set only for an existing, active user
ReqUser(reader) ==
    IF reader \in UserIds /\ users[reader].isActive THEN reader ELSE Anonymous

\* a visibility test that lets every signed-in user through
MayReadSignedIn(reader, inc) ==
    \/ inc.status = "VERIFIED"
    \/ ReqUser(reader) # Anonymous

\* the visibility test of GET /incidents/:id
MayRead(reader, inc) ==
    \/ inc.status = "VERIFIED"
    \/ /\ ReqUser(reader) # Anonymous
       /\ \/ ReqUser(reader) = inc.publisherId
          \/ IsModeratorTier(users[reader].role)

\* GET /incidents/:id
GetIncident(reader, id) ==
    /\ IF id \notin DOMAIN incidents
       THEN resp' = [op |-> "get", code |-> 404, reader |-> reader, id |-> id]
            /\ UNCHANGED incidents
       ELSE IF ~MayRead(reader, incidents[id])
       THEN resp' = [op |-> "get", code |-> 404, reader |-> reader, id |-> id]
            /\ UNCHANGED incidents
       ELSE /\ incidents[id].viewCount < MaxViews
            /\ incidents' = [incidents EXCEPT ![id].viewCount = @ + 1]
            /\ resp' = [op |-> "get", code |-> 200, reader |-> reader, id |-> id,
                        incident |-> incidents[id],
                        credibilityScore |->
                            users[incidents[id].publisherId].credibilityScore]
    /\ UNCHANGED <<users, policeStations, usedIds, reports, notifications,
                   auditLog, dailyPostTracker, decisions, reviews>>
    /\ UNCHANGED procVars
    /\ UNCHANGED limitVars
    /\ UNCHANGED reqVars

\* the where clause of GET /incidents: status: status || 'VERIFIED'
FeedWhere(statusParam) == IF statusParam # None THEN statusParam ELSE "VERIFIED"

\* GET /incidents (feed); the body lists the returned rows
Feed(reader, statusParam) ==
    /\ resp' = [op |-> "feed", code |-> 200, reader |-> reader,
                incidents |-> {[id |-> i, status |-> incidents[i].status,
                                publisherId |-> incidents[i].publisherId] :
                               i \in {j \in DOMAIN incidents :
                                        incidents[j].status = FeedWhere(statusParam)}}]
    /\ UNCHANGED dbVars
    /\ UNCHANGED <<decisions, reviews>>
    /\ UNCHANGED procVars
    /\ UNCHANGED limitVars
    /\ UNCHANGED reqVars

\* POST /incidents/:id/report
CreateReport(u, id) ==
    /\ users[u].isActive
    /\ DOMAIN reports # ReportIds
    /\ IF id \notin DOMAIN incidents
       THEN resp' = [op |-> "report", code |-> 404] /\ UNCHANGED reports
       ELSE IF \E r \in DOMAIN reports :
                   reports[r].incidentId = id /\ reports[r].reporterId = u
       THEN resp' = [op |-> "report", code |-> 400] /\ UNCHANGED reports
       ELSE /\ reports' = reports @@
                  ((CHOOSE r \in ReportIds : r \notin DOMAIN reports) :>
                      [incidentId |-> id, reporterId |-> u, status |-> "PENDING"])
            /\ resp' = [op |-> "report", code |-> 201]
    /\ UNCHANGED <<users, policeStations, incidents, usedIds, notifications,
                   auditLog, dailyPostTracker, decisions, reviews>>
    /\ UNCHANGED procVars
    /\ UNCHANGED limitVars
    /\ UNCHANGED reqVars


\* ------------------------------------------ PUT /admin/incidents/:id/status
\* a decision route without the status check
AnyRequestedStatus == RequestedStatuses

\* the status values the decision route accepts
DecisionStatuses == {"VERIFIED", "REJECTED", "TAKEN_DOWN"}

\* the handler's awaits after findUnique, in order
StorePcs == {"nearest", "notifyStation", "update", "notifyPublisher",
             "credibility", "audit"}

\* the handler answers and its locals are gone
Respond(m, code, id, status) ==
    /\ pc' = [pc EXCEPT ![m] = "idle"]
    /\ req' = [req EXCEPT ![m] = NoReq]
    /\ incident' = [incident EXCEPT ![m] = NoRow]
    /\ policeStationId' = [policeStationId EXCEPT ![m] = None]
    /\ resp' = [op |-> "decide", code |-> code, status |-> status]

\* a station lookup that runs for every requested status
AfterFindAnyStatus(status, inc) ==
    IF TruthyNum(inc.latitude) /\ TruthyNum(inc.longitude)
    THEN "nearest" ELSE "update"

\* where the handler goes after findUnique: the station lookup runs only for
\* VERIFIED and a truthy latitude and longitude
AfterFind(status, inc) ==
    IF status = "VERIFIED" /\ TruthyNum(inc.latitude) /\ TruthyNum(inc.longitude)
    THEN "nearest" ELSE "update"

\* the columns of the row read by findUnique that the handler goes on to use
Snapshot(row) ==
    [status |-> row.status, publisherId |-> row.publisherId,
     latitude |-> row.latitude, longitude |-> row.longitude,
     policeStationId |-> row.policeStationId]

\* request arrival: the status check, then findUnique
DecideFind(m, id, status, note) ==
    /\ pc[m] = "idle"
    /\ users[m].isActive /\ IsModeratorTier(users[m].role)
    /\ decisions < MaxDecisions
    /\ decisions' = decisions + 1
    /\ IF status \notin DecisionStatuses
       THEN Respond(m, 400, id, status)
       ELSE IF id \notin DOMAIN incidents
       THEN Respond(m, 404, id, status)
       ELSE /\ req' = [req EXCEPT ![m] = [id |-> id, status |-> status,
                                          verificationNote |-> note]]
            /\ incident' = [incident EXCEPT ![m] = Snapshot(incidents[id])]
            /\ policeStationId' =
                   [policeStationId EXCEPT ![m] = incidents[id].policeStationId]
            /\ pc' = [pc EXCEPT ![m] = AfterFind(status, incidents[id])]
            /\ resp' = NoResp
    /\ UNCHANGED dbVars
    /\ UNCHANGED reviews
    /\ UNCHANGED limitVars
    /\ UNCHANGED reqVars

\* findNearestPoliceStation(incident.latitude, incident.longitude)
DecideNearest(m) ==
    /\ pc[m] = "nearest"
    /\ LET r == findNearestPoliceStation(incident[m].latitude,
                                         incident[m].longitude, policeStations)
       IN  IF r # None
           THEN /\ policeStationId' = [policeStationId EXCEPT ![m] = r]
                /\ pc' = [pc EXCEPT ![m] = "notifyStation"]
           ELSE /\ pc' = [pc EXCEPT ![m] = "update"]
                /\ UNCHANGED policeStationId
    /\ resp' = NoResp
    /\ UNCHANGED dbVars
    /\ UNCHANGED <<req, incident, decisions, reviews>>
    /\ UNCHANGED limitVars
    /\ UNCHANGED reqVars

\* the officers notifyPoliceStation writes to
StationOfficers(sid) ==
    {u \in UserIds : /\ users[u].policeStationId = sid
                     /\ users[u].role = "POLICE"
                     /\ users[u].isActive}

\* notifyPoliceStation(policeStationId, incident)
DecideNotifyStation(m) ==
    /\ pc[m] = "notifyStation"
    /\ notifications' = notifications (+)
           SetToBag({Notification(u, "NEW_INCIDENT_NEARBY") :
                       u \in StationOfficers(policeStationId[m])})
    /\ pc' = [pc EXCEPT ![m] = "update"]
    /\ resp' = NoResp
    /\ UNCHANGED <<users, policeStations, incidents, usedIds, reports,
                   auditLog, dailyPostTracker>>
    /\ UNCHANGED <<req, incident, policeStationId, decisions, reviews>>
    /\ UNCHANGED limitVars
    /\ UNCHANGED reqVars

\* the row written by prisma.incident.update: an undefined note and a falsy
\* policeStationId leave their columns as they are
DecidedRow(row, m, status, note, sid) ==
    [row EXCEPT !.status = status,
                !.verificationNote = IF note # None THEN note ELSE @,
                !.verifiedAt = "set",
                !.verifiedBy = m,
                !.policeStationId = IF TruthyId(sid) THEN sid ELSE @]

\* prisma.incident.update; a row deleted meanwhile makes it throw, and so
\* does a policeStationId whose office was deleted meanwhile (foreign key)
DecideUpdate(m) ==
    /\ pc[m] = "update"
    /\ IF \/ req[m].id \notin DOMAIN incidents
          \/ /\ TruthyId(policeStationId[m])
             /\ policeStationId[m] \notin DOMAIN policeStations
       THEN Respond(m, 500, req[m].id, req[m].status) /\ UNCHANGED incidents
       ELSE /\ incidents' = [incidents EXCEPT ![req[m].id] =
                   DecidedRow(@, m, req[m].status, req[m].verificationNote,
                              policeStationId[m])]
            /\ pc' = [pc EXCEPT ![m] = "notifyPublisher"]
            /\ resp' = NoResp
            /\ UNCHANGED <<req, incident, policeStationId>>
    /\ UNCHANGED <<users, policeStations, usedIds, reports, notifications,
                   auditLog, dailyPostTracker>>
    /\ UNCHANGED <<decisions, reviews>>
    /\ UNCHANGED limitVars
    /\ UNCHANGED reqVars

NotificationType(status) ==
    CASE status = "REJECTED" -> "INCIDENT_REJECTED"
      [] status = "TAKEN_DOWN" -> "INCIDENT_REPORTED"
      [] OTHER -> "INCIDENT_VERIFIED"

\* the handler's position after the publisher's notification: user.update is
\* called only for VERIFIED and REJECTED
AfterNotify(status) ==
    IF status \in {"VERIFIED", "REJECTED"} THEN "credibility" ELSE "audit"

\* prisma.notification.create for the publisher
DecideNotifyPublisher(m) ==
    /\ pc[m] = "notifyPublisher"
    /\ notifications' = notifications (+)
           SetToBag({Notification(incident[m].publisherId,
                                  NotificationType(req[m].status))})
    /\ pc' = [pc EXCEPT ![m] = AfterNotify(req[m].status)]
    /\ resp' = NoResp
    /\ UNCHANGED <<users, policeStations, incidents, usedIds, reports,
                   auditLog, dailyPostTracker>>
    /\ UNCHANGED <<req, incident, policeStationId, decisions, reviews>>
    /\ UNCHANGED limitVars
    /\ UNCHANGED reqVars

\* a score update that credits a verification with one point
CredibilityDeltaByOne(status) ==
    CASE status = "VERIFIED" -> 1
      [] status = "REJECTED" -> -1
      [] OTHER -> 0

\* credibilityScore: increment 2 on VERIFIED, decrement 1 on REJECTED
CredibilityDelta(status) ==
    CASE status = "VERIFIED" -> 2
      [] status = "REJECTED" -> -1
      [] OTHER -> 0

\* prisma.user.update of the publisher
DecideCredibility(m) ==
    /\ pc[m] = "credibility"
    /\ users' = [users EXCEPT ![incident[m].publisherId].credibilityScore =
                     @ + CredibilityDelta(req[m].status)]
    /\ pc' = [pc EXCEPT ![m] = "audit"]
    /\ resp' = NoResp
    /\ UNCHANGED <<policeStations, incidents, usedIds, reports,
                   notifications, auditLog, dailyPostTracker>>
    /\ UNCHANGED <<req, incident, policeStationId, decisions, reviews>>
    /\ UNCHANGED limitVars
    /\ UNCHANGED reqVars

\* an audit action that logs a take-down as a rejection
AuditActionTwoWay(status) ==
    IF status = "VERIFIED" THEN "VERIFY_INCIDENT" ELSE "REJECT_INCIDENT"

AuditAction(status) ==
    IF status = "VERIFIED" THEN "VERIFY_INCIDENT"
    ELSE IF status = "REJECTED" THEN "REJECT_INCIDENT" ELSE "TAKEDOWN_INCIDENT"

\* an audit table that keeps its latest entry only
LoggedLatestOnly(log, entry) == <<entry>>

\* prisma.auditLog.create: one more row, after the rows there are
Logged(log, entry) == Append(log, entry)

\* prisma.auditLog.create, then the success response
DecideAudit(m) ==
    /\ pc[m] = "audit"
    /\ auditLog' = Logged(auditLog,
           [adminId |-> m, action |-> AuditAction(req[m].status),
            targetType |-> "INCIDENT", targetId |-> req[m].id,
            reason |-> req[m].verificationNote])
    /\ Respond(m, 200, req[m].id, req[m].status)
    /\ UNCHANGED <<users, policeStations, incidents, usedIds, reports,
                   notifications, dailyPostTracker>>
    /\ UNCHANGED <<decisions, reviews>>
    /\ UNCHANGED limitVars
    /\ UNCHANGED reqVars

\* a store call of the handler rejects: asyncHandler passes the error to
\* errorHandler, which answers 500; what was written before stays written
DecideStoreError(m) ==
    /\ pc[m] \in StorePcs
    /\ Respond(m, 500, req[m].id, req[m].status)
    /\ UNCHANGED dbVars
    /\ UNCHANGED <<decisions, reviews>>
    /\ UNCHANGED limitVars
    /\ UNCHANGED reqVars

\* ------------------------------------------------- PUT /admin/reports/:id
ReviewStatuses == {"REVIEWED", "ACTION_TAKEN", "DISMISSED"}

\* the row written by the cascaded take-down
TakenDownRow(row, m, reviewNote) ==
    [row EXCEPT !.status = "TAKEN_DOWN",
                !.verificationNote =
                    IF reviewNote # None THEN reviewNote
                    ELSE "Taken down due to reports",
                !.verifiedBy = m,
                !.verifiedAt = "set"]

\* the store calls of a review, in order; failAt names the one that rejects
ReviewCalls == <<"reportUpdate", "incidentUpdate", "notify">>
FailPoints == {"reportUpdate", "incidentUpdate", "notify", None}
Reaches(failAt, call) ==
    \A i \in 1..Len(ReviewCalls) :
        ReviewCalls[i] = failAt =>
            \E j \in 1..Len(ReviewCalls) : ReviewCalls[j] = call /\ j < i

Review(m, rid, status, reviewNote, takeDownIncident, failAt) ==
    /\ users[m].isActive /\ IsModeratorTier(users[m].role)
    /\ reviews < MaxReviews
    /\ reviews' = reviews + 1
    /\ IF status \notin ReviewStatuses
       THEN /\ resp' = [op |-> "review", code |-> 400]
            /\ UNCHANGED <<reports, incidents, notifications>>
       ELSE IF rid \notin DOMAIN reports
       THEN /\ resp' = [op |-> "review", code |-> 404]
            /\ UNCHANGED <<reports, incidents, notifications>>
       ELSE LET id == reports[rid].incidentId
                takeDown == takeDownIncident
            IN  /\ (~takeDown => failAt \in {"reportUpdate", None})
                /\ reports' = IF Reaches(failAt, "reportUpdate")
                              THEN [reports EXCEPT ![rid].status = status]
                              ELSE reports
                /\ incidents' = IF takeDown /\ Reaches(failAt, "incidentUpdate")
                                THEN [incidents EXCEPT ![id] =
                                         TakenDownRow(@, m, reviewNote)]
                                ELSE incidents
                /\ notifications' = IF takeDown /\ failAt = None
                                    THEN notifications (+) SetToBag(
                                        {Notification(incidents[id].publisherId,
                                                      "INCIDENT_REPORTED")})
                                    ELSE notifications
                /\ resp' = [op |-> "review",
                            code |-> IF failAt = None THEN 200 ELSE 500]
    /\ UNCHANGED <<users, policeStations, usedIds, auditLog,
                   dailyPostTracker, decisions>>
    /\ UNCHANGED procVars
    /\ UNCHANGED limitVars
    /\ UNCHANGED reqVars

\* ------------------------------------------------------ one-time codes
\* addresses asking for a code, what else a body may carry as email, and the
\* codes generateOTP may draw
Emails == {"a@x.com", "b@x.com"}
BodyEmails == Emails \cup {None, "a@x"}
Codes == {"111111", "222222"}

\* emailRegex.test(email): something@something.something
EmailRegexTest(email) == email \in {"a@x.com", "b@x.com"}

\* Map.set
MapSet(map, k, v) == [x \in DOMAIN map \cup {k} |-> IF x = k THEN v ELSE map[x]]

\* a delete that leaves the entry in the map
MapKeep(map, k) == map

\* Map.delete
MapDelete(map, k) == [x \in DOMAIN map \ {k} |-> map[x]]

\* Math.ceil(ms / 60000)
CeilMinutes(ms) == (ms + 59999) \div 60000

\* a store whose records live a millisecond longer
storeOTPLongLived(store, email, otp, t) ==
    MapSet(store, email, [otp |-> otp, attempts |-> 0, createdAt |-> t,
                          expiresAt |-> t + OTP_EXPIRY + 1])

\* a store whose new record inherits the attempts of the one it replaces
storeOTPKeepingAttempts(store, email, otp, t) ==
    MapSet(store, email,
           [otp |-> otp,
            attempts |-> IF email \in DOMAIN store THEN store[email].attempts ELSE 0,
            createdAt |-> t, expiresAt |-> t + OTP_EXPIRY])

\* storeOTP: the record replaces the address's earlier one
storeOTP(store, email, otp, t) ==
    MapSet(store, email, [otp |-> otp, attempts |-> 0, createdAt |-> t,
                          expiresAt |-> t + OTP_EXPIRY])

\* a window test that also restarts the window at its last instant
WindowOverAtReset(t, resetAt) == t >= resetAt

\* checkRateLimit: if (now > rateData.resetAt), a new window starts
WindowOver(t, resetAt) == t > resetAt

\* a limiter that counts the requests it denies as well
checkRateLimitCountingDenied(store, email, t) ==
    LET fresh == MapSet(store, email,
                        [count |-> 1, resetAt |-> t + RATE_LIMIT_WINDOW])
    IN  IF email \notin DOMAIN store
        THEN [allowed |-> TRUE, minutes |-> 0, store |-> fresh]
        ELSE IF WindowOver(t, store[email].resetAt)
        THEN [allowed |-> TRUE, minutes |-> 0, store |-> fresh]
        ELSE [allowed |-> store[email].count < MAX_REQUESTS_PER_HOUR,
              minutes |-> CeilMinutes(store[email].resetAt - t),
              store |-> [store EXCEPT ![email].count = @ + 1]]

\* checkRateLimit: the result, and the store it leaves
checkRateLimit(store, email, t) ==
    LET fresh == MapSet(store, email,
                        [count |-> 1, resetAt |-> t + RATE_LIMIT_WINDOW])
    IN  IF email \notin DOMAIN store
        THEN [allowed |-> TRUE, minutes |-> 0, store |-> fresh]
        ELSE IF WindowOver(t, store[email].resetAt)
        THEN [allowed |-> TRUE, minutes |-> 0, store |-> fresh]
        ELSE IF store[email].count >= MAX_REQUESTS_PER_HOUR
        THEN [allowed |-> FALSE,
              minutes |-> CeilMinutes(store[email].resetAt - t),
              store |-> store]
        ELSE [allowed |-> TRUE, minutes |-> 0,
              store |-> [store EXCEPT ![email].count = @ + 1]]

\* POST /auth/send-otp; generateOTP draws otp, sendOTPEmail is handed it
SendOtp(email, otp) ==
    /\ sends < MaxSends
    /\ sends' = sends + 1
    /\ IF email = None
       THEN /\ resp' = [op |-> "send-otp", code |-> 400, email |-> email, minutes |-> 0]
            /\ UNCHANGED <<rateLimitStore, otpStore, outbox, mail>>
       ELSE IF ~EmailRegexTest(email)
       THEN /\ resp' = [op |-> "send-otp", code |-> 400, email |-> email, minutes |-> 0]
            /\ UNCHANGED <<rateLimitStore, otpStore, outbox, mail>>
       ELSE LET rateCheck == checkRateLimit(rateLimitStore, email, now)
            IN  /\ rateLimitStore' = rateCheck.store
                /\ IF ~rateCheck.allowed
                   THEN /\ resp' = [op |-> "send-otp", code |-> 429,
                                    email |-> email, minutes |-> rateCheck.minutes]
                        /\ UNCHANGED <<otpStore, outbox, mail>>
                   ELSE /\ otpStore' = storeOTP(otpStore, email, otp, now)
                        /\ outbox' = MapSet(outbox, email, otp)
                        /\ mail' = mail + 1
                        /\ resp' = [op |-> "send-otp", code |-> 200,
                                    email |-> email, minutes |-> 0]
    /\ UNCHANGED dbVars
    /\ UNCHANGED <<procVars, decisions, reviews>>
    /\ UNCHANGED <<post, posts, now, verifies, ticks>>
    /\ UNCHANGED <<login, accounts, change, removal, mailErrors, tokens>>

\* a delivery whose failure throws the stored codes away
AfterMailDroppingFailed(store, ok) == IF ok THEN store ELSE << >>

\* what sendOTPEmail does to otpStore, delivered or not: nothing
AfterMail(store, ok) == store

\* a sendOTPEmail promise settles after the response was sent: the mail went
\* out, or the failure is written to the console by sendOTPEmail's own catch
\* (or by the route's .catch) and nothing else happens
SettleMail(ok) ==
    /\ mail > 0
    /\ mail' = mail - 1
    /\ mailErrors' = IF ok THEN mailErrors ELSE mailErrors + 1
    /\ otpStore' = AfterMail(otpStore, ok)
    /\ resp' = NoResp
    /\ UNCHANGED dbVars
    /\ UNCHANGED <<procVars, decisions, reviews>>
    /\ UNCHANGED <<post, posts, rateLimitStore, now, sends, verifies, ticks>>
    /\ UNCHANGED <<outbox, login, accounts, change, removal, tokens>>

\* an attempt test that closes the record one attempt early
AttemptsExceededEarly(stored) == stored.attempts >= MAX_ATTEMPTS - 1

\* an attempt test that closes the record one attempt late
AttemptsOver(stored) == stored.attempts > MAX_ATTEMPTS

\* verifyOTP: if (stored.attempts >= MAX_ATTEMPTS)
AttemptsExceeded(stored) == stored.attempts >= MAX_ATTEMPTS

\* a guess that is not counted
Uncharged(stored) == stored

\* stored.attempts++
Charged(stored) == [stored EXCEPT !.attempts = @ + 1]

\* verifyOTP(email, inputOTP) at time t: what it returns, and the store it
\* leaves (attempts++ comes before the comparison; a match deletes the record)
verifyOTP(store, email, inputOTP, t) ==
    IF email \notin DOMAIN store
    THEN [success |-> FALSE, message |-> "OTP not found or expired",
          store |-> store]
    ELSE IF t > store[email].expiresAt
    THEN [success |-> FALSE, message |-> "OTP expired",
          store |-> MapDelete(store, email)]
    ELSE IF AttemptsExceeded(store[email])
    THEN [success |-> FALSE, message |-> "Maximum attempts exceeded",
          store |-> MapDelete(store, email)]
    ELSE IF store[email].otp # inputOTP
    THEN [success |-> FALSE, message |-> "Invalid OTP",
          store |-> [store EXCEPT ![email] = Charged(@)]]
    ELSE [success |-> TRUE, message |-> "OTP verified successfully",
          store |-> MapDelete([store EXCEPT ![email] = Charged(@)], email)]

\* what a call of verifyOTP returned in this step
Verification(email, inputOTP, v) ==
    [op |-> "verify-otp", email |-> email, otp |-> inputOTP,
     success |-> v.success, message |-> v.message]

\* a call of verifyOTP(email, inputOTP) on its own
VerifyCode(email, inputOTP) ==
    /\ verifies < MaxVerifies
    /\ verifies' = verifies + 1
    /\ LET verification == verifyOTP(otpStore, email, inputOTP, now)
       IN  /\ otpStore' = verification.store
           /\ resp' = Verification(email, inputOTP, verification)
    /\ UNCHANGED dbVars
    /\ UNCHANGED <<procVars, decisions, reviews>>
    /\ UNCHANGED <<post, posts, rateLimitStore, now, sends, ticks>>
    /\ UNCHANGED reqVars

\* ------------------------------------------------- POST /auth/verify-otp
\* what the body may carry as name
LoginNames == {None, "Asha"}

\* generateToken({ userId: user.id, role: user.role }) of the row the request
\* holds
TokenOf(l) == [userId |-> l.email, role |-> l.role]

\* the request is answered and its slot is free again; the answer 200 carries
\* the tokens
LoginRespond(s, code) ==
    /\ login' = [login EXCEPT ![s] = NoLogin]
    /\ tokens' = IF code = 200 THEN tokens \cup {TokenOf(login[s])} ELSE tokens
    /\ resp' = [op |-> "login", code |-> code, email |-> login[s].email,
                tokens |-> code = 200]

\* request arrival up to the first await: the body check and verifyOTP, which
\* runs to its return without yielding; a failed verification is thrown as 400
VerifyOtp(s, email, otp, name) ==
    /\ login[s].pc = "idle"
    /\ verifies < MaxVerifies
    /\ verifies' = verifies + 1
    /\ IF email = None \/ otp = None
       THEN /\ resp' = [op |-> "login", code |-> 400, email |-> email,
                        tokens |-> FALSE]
            /\ UNCHANGED <<otpStore, login>>
       ELSE LET verification == verifyOTP(otpStore, email, otp, now)
            IN  /\ otpStore' = verification.store
                /\ resp' = Verification(email, otp, verification)
                /\ login' = IF verification.success
                            THEN [login EXCEPT ![s] = [pc |-> "findUnique",
                                                       email |-> email,
                                                       name |-> name,
                                                       role |-> None]]
                            ELSE login
    /\ UNCHANGED dbVars
    /\ UNCHANGED <<procVars, decisions, reviews>>
    /\ UNCHANGED <<post, posts, rateLimitStore, now, sends, ticks>>
    /\ UNCHANGED <<outbox, accounts, change, sideVars>>

\* a check that lets every account in
SuspendedNever(user) == FALSE

\* if (!user.isActive)
Suspended(user) == ~user.isActive

\* prisma.user.findUnique({ where: { email } }): an unknown address needs a
\* name, a known one must be active
LoginFindUnique(s) ==
    /\ login[s].pc = "findUnique"
    /\ IF login[s].email \notin DOMAIN accounts
       THEN IF login[s].name = None
            THEN LoginRespond(s, 400)
            ELSE /\ login' = [login EXCEPT ![s].pc = "create"]
                 /\ resp' = NoResp
                 /\ UNCHANGED tokens
       ELSE IF Suspended(accounts[login[s].email])
            THEN LoginRespond(s, 403)
            ELSE /\ login' = [login EXCEPT ![s].pc = "update",
                                           ![s].role = accounts[login[s].email].role]
                 /\ resp' = NoResp
                 /\ UNCHANGED tokens
    /\ UNCHANGED dbVars
    /\ UNCHANGED <<procVars, decisions, reviews>>
    /\ UNCHANGED limitVars
    /\ UNCHANGED <<outbox, accounts, change, removal, mail, mailErrors>>

\* prisma.user.create: users_email_key rejects a second row of the address
LoginCreate(s) ==
    /\ login[s].pc = "create"
    /\ IF login[s].email \in DOMAIN accounts
       THEN LoginRespond(s, 500) /\ UNCHANGED accounts
       ELSE /\ accounts' = MapSet(accounts, login[s].email,
                                  [role |-> "CITIZEN", isActive |-> TRUE,
                                   isVerified |-> TRUE])
            /\ login' = [login EXCEPT ![s].pc = "update", ![s].role = "CITIZEN"]
            /\ resp' = NoResp
            /\ UNCHANGED tokens
    /\ UNCHANGED dbVars
    /\ UNCHANGED <<procVars, decisions, reviews>>
    /\ UNCHANGED limitVars
    /\ UNCHANGED <<outbox, change, removal, mail, mailErrors>>

\* prisma.user.update of lastLoginAt, then the tokens and the answer
LoginUpdate(s) ==
    /\ login[s].pc = "update"
    /\ LoginRespond(s, 200)
    /\ UNCHANGED dbVars
    /\ UNCHANGED <<procVars, decisions, reviews>>
    /\ UNCHANGED limitVars
    /\ UNCHANGED <<outbox, accounts, change, removal, mail, mailErrors>>

\* a store call of the sign-in rejects: errorHandler answers 500
LoginStoreError(s) ==
    /\ login[s].pc \in {"findUnique", "create", "update"}
    /\ LoginRespond(s, 500)
    /\ UNCHANGED dbVars
    /\ UNCHANGED <<procVars, decisions, reviews>>
    /\ UNCHANGED limitVars
    /\ UNCHANGED <<outbox, accounts, change, removal, mail, mailErrors>>

\* ------------------------------------------------- PUT /admin/users/:id
\* the bodies sent: isActive or role, the other field undefined
UserBodies ==
    {[isActive |-> b] : b \in BOOLEAN} \cup {[role |-> r] : r \in {"ADMIN", "CITIZEN"}}

\* the moderator-tier user m updates the account of an address: only an admin
\* may send a role, and the fields that are sent are written
UpdateAccount(m, email, body) ==
    /\ users[m].isActive /\ IsModeratorTier(users[m].role)
    /\ IF email \notin DOMAIN accounts
       THEN /\ resp' = [op |-> "user", code |-> 404]
            /\ UNCHANGED accounts
       ELSE IF "role" \in DOMAIN body /\ users[m].role # "ADMIN"
       THEN /\ resp' = [op |-> "user", code |-> 403]
            /\ UNCHANGED accounts
       ELSE /\ accounts' = [accounts EXCEPT ![email] =
                   [f \in DOMAIN @ |-> IF f \in DOMAIN body THEN body[f] ELSE @[f]]]
            /\ resp' = [op |-> "user", code |-> 200]
    /\ UNCHANGED dbVars
    /\ UNCHANGED <<procVars, decisions, reviews>>
    /\ UNCHANGED limitVars
    /\ UNCHANGED <<outbox, login, change, sideVars>>

\* ------------------------------------------------ authenticate, authorize
\* a check that trusts the role inside the token
authenticateByTokenRole(token, roles, table) ==
    IF token.userId \notin DOMAIN table THEN 401
    ELSE IF ~table[token.userId].isActive THEN 401
    ELSE IF token.role \notin roles THEN 403
    ELSE 200

\* authenticate with a validly signed, unexpired token, then authorize(roles):
\* the status answered, 200 standing for next()
authenticate(token, roles, table) ==
    IF token.userId \notin DOMAIN table THEN 401
    ELSE IF ~table[token.userId].isActive THEN 401
    ELSE IF table[token.userId].role \notin roles THEN 403
    ELSE 200

\* a request to a route behind authorize('ADMIN', 'MODERATOR') or
\* authorize('ADMIN') that carries a token issued earlier
Request(token, roles) ==
    /\ resp' = [op |-> "request", userId |-> token.userId, tokenRole |-> token.role,
                roles |-> roles, code |-> authenticate(token, roles, accounts)]
    /\ UNCHANGED <<dbVars, procVars, decisions, reviews, limitVars, reqVars>>

\* a sweep that stops at the first expired record it finds
cleanupFirstExpired ==
    /\ \E e \in DOMAIN otpStore : now > otpStore[e].expiresAt
    /\ otpStore' = MapDelete(otpStore,
           CHOOSE e \in DOMAIN otpStore : now > otpStore[e].expiresAt)
    /\ resp' = NoResp
    /\ UNCHANGED dbVars
    /\ UNCHANGED <<procVars, decisions, reviews>>
    /\ UNCHANGED <<post, posts, rateLimitStore, now, sends, verifies, ticks>>
    /\ UNCHANGED reqVars

\* cleanupExpiredOTPs, run by setInterval
cleanupExpiredOTPs ==
    /\ \E e \in DOMAIN otpStore : now > otpStore[e].expiresAt
    /\ otpStore' = [e \in {x \in DOMAIN otpStore : ~(now > otpStore[x].expiresAt)}
                      |-> otpStore[e]]
    /\ resp' = NoResp
    /\ UNCHANGED dbVars
    /\ UNCHANGED <<procVars, decisions, reviews>>
    /\ UNCHANGED <<post, posts, rateLimitStore, now, sends, verifies, ticks>>
    /\ UNCHANGED reqVars

\* time passes: Date.now() grows by d milliseconds
Tick(d) ==
    /\ ticks < MaxTicks
    /\ ticks' = ticks + 1
    /\ now' = now + d
    /\ resp' = NoResp
    /\ UNCHANGED dbVars
    /\ UNCHANGED <<procVars, decisions, reviews>>
    /\ UNCHANGED <<post, posts, otpStore, rateLimitStore, sends, verifies>>
    /\ UNCHANGED reqVars

\* ---------------------------------- POST /incidents, one middleware at a time
\* the ids the store gives to new incidents, in order
PostIds == <<"i1", "i2", "i3", "i4", "i5", "i6", "i7", "i8", "i9">>

\* incidentValidator on the coordinates: isFloat within the ranges
IsValidBody(lat, lon) == lat \in -90..90 /\ lon \in -180..180

\* the request is answered and its slot is free again
PostRespond(s, code, u) ==
    /\ post' = [post EXCEPT ![s] = NoPost]
    /\ resp' = [op |-> "submit", code |-> code, userId |-> u]

\* a quota check that lets the request at the ceiling through
OverLimit(count, limit) == count > limit

\* checkPostLimit: if (currentCount >= limit) throw 429
AtLimit(count, limit) == count >= limit

\* authenticate, then checkPostLimit: findFirst of today's tracker row and the
\* comparison with the role's ceiling
checkPostLimit(s, u, lat, lon) ==
    /\ post[s].pc = "idle"
    /\ users[u].isActive
    /\ posts < MaxPosts
    /\ posts' = posts + 1
    /\ IF AtLimit(dailyPostTracker[u], PostLimit(users[u].role))
       THEN /\ resp' = [op |-> "submit", code |-> 429, userId |-> u]
            /\ UNCHANGED post
       ELSE /\ post' = [post EXCEPT ![s] = [pc |-> "validate", userId |-> u,
                                            latitude |-> lat, longitude |-> lon]]
            /\ resp' = NoResp
    /\ UNCHANGED dbVars
    /\ UNCHANGED <<procVars, decisions, reviews>>
    /\ UNCHANGED <<otpStore, rateLimitStore, now, sends, verifies, ticks>>
    /\ UNCHANGED reqVars

\* incidentValidator, validate: a body out of range is answered 400
SubmitValidate(s) ==
    /\ post[s].pc = "validate"
    /\ IF IsValidBody(post[s].latitude, post[s].longitude)
       THEN /\ post' = [post EXCEPT ![s].pc = "create"]
            /\ resp' = NoResp
       ELSE PostRespond(s, 400, post[s].userId)
    /\ UNCHANGED dbVars
    /\ UNCHANGED <<procVars, decisions, reviews>>
    /\ UNCHANGED <<posts, otpStore, rateLimitStore, now, sends, verifies, ticks>>
    /\ UNCHANGED reqVars

\* the handler's station scan and prisma.incident.create
SubmitCreate(s) ==
    /\ post[s].pc = "create"
    /\ Cardinality(usedIds) < Len(PostIds)
    /\ LET id == PostIds[Cardinality(usedIds) + 1]
       IN  /\ incidents' = incidents @@
                  (id :> NewIncident(post[s].userId, post[s].latitude,
                                     post[s].longitude, policeStations))
           /\ usedIds' = usedIds \cup {id}
    /\ post' = [post EXCEPT ![s].pc = "increment"]
    /\ resp' = NoResp
    /\ UNCHANGED <<users, policeStations, reports, notifications, auditLog,
                   dailyPostTracker>>
    /\ UNCHANGED <<procVars, decisions, reviews>>
    /\ UNCHANGED <<posts, otpStore, rateLimitStore, now, sends, verifies, ticks>>
    /\ UNCHANGED reqVars

\* prisma.incident.create rejects: errorHandler answers 500, nothing is stored
SubmitCreateError(s) ==
    /\ post[s].pc = "create"
    /\ PostRespond(s, 500, post[s].userId)
    /\ UNCHANGED dbVars
    /\ UNCHANGED <<procVars, decisions, reviews>>
    /\ UNCHANGED <<posts, otpStore, rateLimitStore, now, sends, verifies, ticks>>
    /\ UNCHANGED reqVars

\* incrementPostCount: the upsert adds one to today's row; then 201
incrementPostCount(s) ==
    /\ post[s].pc = "increment"
    /\ dailyPostTracker' = [dailyPostTracker EXCEPT ![post[s].userId] = @ + 1]
    /\ PostRespond(s, 201, post[s].userId)
    /\ UNCHANGED <<users, policeStations, incidents, usedIds, reports,
                   notifications, auditLog>>
    /\ UNCHANGED <<procVars, decisions, reviews>>
    /\ UNCHANGED <<posts, otpStore, rateLimitStore, now, sends, verifies, ticks>>
    /\ UNCHANGED reqVars

\* ------------------------- PUT and DELETE /incidents/:id, one await at a time
\* the request is answered and its slot is free again
ChangeRespond(s, op, code, u, id) ==
    /\ change' = [change EXCEPT ![s] = NoChange]
    /\ resp' = [op |-> op, code |-> code, userId |-> u, id |-> id]

\* PUT /incidents/:id up to its update: authenticate, findUnique, the owner
\* and status checks
EditFind(s, u, id) ==
    /\ change[s].pc = "idle"
    /\ users[u].isActive
    /\ IF id \notin DOMAIN incidents
       THEN ChangeRespond(s, "edit", 404, u, id)
       ELSE IF incidents[id].publisherId # u
       THEN ChangeRespond(s, "edit", 403, u, id)
       ELSE IF incidents[id].status \notin EditableStatuses
       THEN ChangeRespond(s, "edit", 400, u, id)
       ELSE /\ change' = [change EXCEPT ![s] =
                   [pc |-> "update", userId |-> u, id |-> id,
                    status |-> incidents[id].status]]
            /\ resp' = NoResp
    /\ UNCHANGED dbVars
    /\ UNCHANGED <<procVars, decisions, reviews>>
    /\ UNCHANGED limitVars
    /\ UNCHANGED <<outbox, login, accounts, sideVars>>

\* prisma.incident.update({ where: { id }, data: { ..., status: 'SUBMITTED' } });
\* a row deleted meanwhile makes it throw
EditUpdate(s) ==
    /\ change[s].pc = "update"
    /\ IF change[s].id \notin DOMAIN incidents
       THEN /\ ChangeRespond(s, "edit", 500, change[s].userId, change[s].id)
            /\ UNCHANGED incidents
       ELSE /\ incidents' = [incidents EXCEPT ![change[s].id].status = "SUBMITTED"]
            /\ ChangeRespond(s, "edit", 200, change[s].userId, change[s].id)
    /\ UNCHANGED <<users, policeStations, usedIds, reports, notifications,
                   auditLog, dailyPostTracker>>
    /\ UNCHANGED <<procVars, decisions, reviews>>
    /\ UNCHANGED limitVars
    /\ UNCHANGED <<outbox, login, accounts, sideVars>>

\* DELETE /incidents/:id up to its delete: authenticate, findUnique, the owner
\* and status checks
DeleteFind(s, u, id) ==
    /\ change[s].pc = "idle"
    /\ users[u].isActive
    /\ IF id \notin DOMAIN incidents
       THEN ChangeRespond(s, "delete", 404, u, id)
       ELSE IF incidents[id].publisherId # u /\ ~IsModeratorTier(users[u].role)
       THEN ChangeRespond(s, "delete", 403, u, id)
       ELSE IF incidents[id].status = "VERIFIED" /\ ~IsModeratorTier(users[u].role)
       THEN ChangeRespond(s, "delete", 400, u, id)
       ELSE /\ change' = [change EXCEPT ![s] =
                   [pc |-> "delete", userId |-> u, id |-> id,
                    status |-> incidents[id].status]]
            /\ resp' = NoResp
    /\ UNCHANGED dbVars
    /\ UNCHANGED <<procVars, decisions, reviews>>
    /\ UNCHANGED limitVars
    /\ UNCHANGED <<outbox, login, accounts, sideVars>>

\* prisma.incident.delete({ where: { id } }); a row deleted meanwhile makes it
\* throw
DeleteRow(s) ==
    /\ change[s].pc = "delete"
    /\ IF change[s].id \notin DOMAIN incidents
       THEN /\ ChangeRespond(s, "delete", 500, change[s].userId, change[s].id)
            /\ UNCHANGED <<incidents, reports>>
       ELSE /\ incidents' = Without(incidents, change[s].id)
            /\ reports' = ReportsWithoutIncident(reports, change[s].id)
            /\ ChangeRespond(s, "delete", 200, change[s].userId, change[s].id)
    /\ UNCHANGED <<users, policeStations, usedIds, notifications,
                   auditLog, dailyPostTracker>>
    /\ UNCHANGED <<procVars, decisions, reviews>>
    /\ UNCHANGED limitVars
    /\ UNCHANGED <<outbox, login, accounts, sideVars>>

\* ------------------------------------------ PUT /admin/police-stations/:id
\* the body carries isActive only: the row's other columns stay as they are
UpdateStation(m, sid, isActive) ==
    /\ users[m].isActive /\ IsModeratorTier(users[m].role)
    /\ IF sid \notin DOMAIN policeStations
       THEN /\ resp' = [op |-> "station", code |-> 404]
            /\ UNCHANGED policeStations
       ELSE /\ policeStations' = [policeStations EXCEPT ![sid].isActive = isActive]
            /\ resp' = [op |-> "station", code |-> 200]
    /\ UNCHANGED <<users, incidents, usedIds, reports, notifications,
                   auditLog, dailyPostTracker, decisions, reviews>>
    /\ UNCHANGED procVars
    /\ UNCHANGED limitVars
    /\ UNCHANGED reqVars

\* --------------------------------------- DELETE /admin/police-stations/:id
RemovalRespond(code, id, message) ==
    /\ resp' = [op |-> "remove-station", code |-> code, id |-> id,
                message |-> message]
    /\ removal' = NoRemoval

\* authenticate, authorize('ADMIN', 'MODERATOR') of the router, authorize('ADMIN')
\* of the route, then prisma.policeStation.findUnique
RemoveStationFind(u, sid) ==
    /\ removal.pc = "idle"
    /\ users[u].isActive
    /\ IF users[u].role # "ADMIN"
       THEN RemovalRespond(403, sid, "Insufficient permissions")
       ELSE IF sid \notin DOMAIN policeStations
       THEN RemovalRespond(404, sid, "Police station not found")
       ELSE /\ removal' = [pc |-> "count", id |-> sid]
            /\ resp' = NoResp
    /\ UNCHANGED dbVars
    /\ UNCHANGED <<procVars, decisions, reviews>>
    /\ UNCHANGED limitVars
    /\ UNCHANGED <<outbox, login, accounts, change, mail, mailErrors, tokens>>

\* the incidents linked to an office
LinkedIncidents(sid) == {i \in DOMAIN incidents : incidents[i].policeStationId = sid}

\* prisma.incident.count({ where: { policeStationId } }) and the branch on it
RemoveStationCount ==
    /\ removal.pc = "count"
    /\ removal' = [removal EXCEPT !.pc = IF Cardinality(LinkedIncidents(removal.id)) > 0
                                          THEN "deactivate" ELSE "delete"]
    /\ resp' = NoResp
    /\ UNCHANGED dbVars
    /\ UNCHANGED <<procVars, decisions, reviews>>
    /\ UNCHANGED limitVars
    /\ UNCHANGED <<outbox, login, accounts, change, mail, mailErrors, tokens>>

\* the soft delete: prisma.policeStation.update({ data: { isActive: false } })
RemoveStationDeactivate ==
    /\ removal.pc = "deactivate"
    /\ IF removal.id \notin DOMAIN policeStations
       THEN /\ RemovalRespond(500, removal.id, "Something went wrong")
            /\ UNCHANGED policeStations
       ELSE /\ policeStations' = [policeStations EXCEPT ![removal.id].isActive = FALSE]
            /\ RemovalRespond(200, removal.id,
                              "Police station deactivated (has linked incidents)")
    /\ UNCHANGED <<users, incidents, usedIds, reports, notifications,
                   auditLog, dailyPostTracker>>
    /\ UNCHANGED <<procVars, decisions, reviews>>
    /\ UNCHANGED limitVars
    /\ UNCHANGED <<outbox, login, accounts, change, mail, mailErrors, tokens>>

\* ON DELETE SET NULL of incidents_policeStationId_fkey and
\* users_policeStationId_fkey
Unlinked(rows, sid) ==
    [k \in DOMAIN rows |->
        IF rows[k].policeStationId = sid
        THEN [rows[k] EXCEPT !.policeStationId = None] ELSE rows[k]]

\* prisma.policeStation.delete: the row goes and the database clears the
\* references to it
RemoveStationDelete ==
    /\ removal.pc = "delete"
    /\ IF removal.id \notin DOMAIN policeStations
       THEN /\ RemovalRespond(500, removal.id, "Something went wrong")
            /\ UNCHANGED <<policeStations, incidents, users>>
       ELSE /\ policeStations' = Without(policeStations, removal.id)
            /\ incidents' = Unlinked(incidents, removal.id)
            /\ users' = Unlinked(users, removal.id)
            /\ RemovalRespond(200, removal.id, "Police station deleted successfully")
    /\ UNCHANGED <<usedIds, reports, notifications, auditLog, dailyPostTracker>>
    /\ UNCHANGED <<procVars, decisions, reviews>>
    /\ UNCHANGED limitVars
    /\ UNCHANGED <<outbox, login, accounts, change, mail, mailErrors, tokens>>

\* ----------------------------------------------------------- errorHandler
\* JavaScript truthiness of a string (the empty string is falsy)
TruthyStr(x) == x # ""

\* the response errorHandler writes for an error, by process.env.NODE_ENV;
\* statusCode and errors are undefined on an error that is no AppError
errorHandler(err, nodeEnv) ==
    LET statusCode == IF "statusCode" \in DOMAIN err THEN err.statusCode ELSE 0
        errors == IF "errors" \in DOMAIN err THEN err.errors ELSE None
    IN  [statusCode |-> IF TruthyNum(statusCode) THEN statusCode ELSE 500,
         message |-> IF TruthyStr(err.message) THEN err.message
                     ELSE "Internal server error",
         errors |-> errors,
         stack |-> nodeEnv = "development"]

\* the errors that reach the handler: errors of the store and of the runtime,
\* which carry no statusCode, and AppErrors thrown by the routes
InternalMessages ==
    {"", "Record to update not found.",
     "Unique constraint failed on the fields: (email)",
     "Cannot read properties of undefined",
     "Cannot reach database server at db:5432"}
UnexpectedErrors == {[message |-> m] : m \in InternalMessages}
AppErrors ==
    {[message |-> m, statusCode |-> c, errors |-> e] :
        m \in InternalMessages \cup
                 {"Invalid status", "Incident not found", "Invalid or expired OTP"},
        c \in {400, 401, 403, 404, 409, 429, 500},
        e \in {None, "fields"}}

\* next(err) of a route, asyncHandler's catch included, arrives at errorHandler
HandleError(err, nodeEnv) ==
    /\ resp' = [op |-> "error", err |-> err, body |-> errorHandler(err, nodeEnv)]
    /\ UNCHANGED <<dbVars, procVars, decisions, reviews, limitVars, reqVars>>

\* ------------------------------------------------------------------- Next
\* the coordinates submitted: one with a zero latitude, one without
SubmitCoords == {<<0, 1>>, <<1, 1>>}
\* who submits incidents and who files reports against them
Submitters == {"u1"}
Reporters == {"u2"}
\* who reviews the reports, and the status filters readers try on the feed
Reviewers == {"m2"}
FeedParams == {None, "SUBMITTED", "VERIFIED", "TAKEN_DOWN"}

PublisherStep ==
    \/ \E u \in Submitters, c \in SubmitCoords : Submit(u, c[1], c[2])
    \/ \E u \in Publishers, id \in IncidentIds : Edit(u, id)
    \/ \E u \in Publishers \cup Mods, id \in IncidentIds : Delete(u, id)
    \/ \E u \in Reporters, id \in IncidentIds : CreateReport(u, id)

DecideStep(m, notes) ==
    \/ \E id \in IncidentIds, s \in RequestedStatuses, n \in notes :
           DecideFind(m, id, s, n)
    \/ DecideNearest(m)
    \/ DecideNotifyStation(m)
    \/ DecideUpdate(m)
    \/ DecideNotifyPublisher(m)
    \/ DecideCredibility(m)
    \/ DecideAudit(m)
    \/ DecideStoreError(m)

ReviewStep(notes) ==
    \E m \in Reviewers, rid \in ReportIds, s \in {"ACTION_TAKEN", "BOGUS"},
       n \in notes, t \in BOOLEAN, f \in FailPoints :
        Review(m, rid, s, n, t, f)

ReadStep ==
    \/ \E r \in Readers, id \in IncidentIds : GetIncident(r, id)
    \/ \E r \in Readers, s \in FeedParams : Feed(r, s)

\* the moderation pipeline: publishers, a moderator deciding, another
\* reviewing reports, both without a note
Next ==
    \/ PublisherStep
    \/ DecideStep("m1", {None})
    \/ ReviewStep({None})

Spec == Init /\ [][Next]_vars

\* two moderators deciding concurrently on what a publisher submits and edits
NextRace ==
    \/ \E u \in Submitters, c \in SubmitCoords : Submit(u, c[1], c[2])
    \/ \E u \in Submitters, id \in IncidentIds : Edit(u, id)
    \/ \E m \in Mods : DecideStep(m, Notes)

SpecRace == Init /\ [][NextRace]_vars

\* the readers' view of incidents a publisher submits and a moderator decides
NextRead ==
    \/ \E u \in Submitters, c \in SubmitCoords : Submit(u, c[1], c[2])
    \/ \E u \in Submitters, id \in IncidentIds : Edit(u, id)
    \/ DecideStep("m1", Notes)
    \/ ReadStep

SpecRead == Init /\ [][NextRead]_vars


\* the bodies posted: one in range, one with a latitude out of range
PostCoords == {<<1, 1>>, <<91, 1>>}

\* POST /incidents requests of the users us, held in the slots ss
PostStep(ss, us) ==
    \/ \E s \in ss, u \in us, c \in PostCoords : checkPostLimit(s, u, c[1], c[2])
    \/ \E s \in ss : SubmitValidate(s)
    \/ \E s \in ss : SubmitCreate(s)
    \/ \E s \in ss : SubmitCreateError(s)
    \/ \E s \in ss : incrementPostCount(s)

\* a day of submissions processed one after another
NextQuota == PostStep({"a"}, Publishers)

SpecQuota == Init /\ [][NextQuota]_vars

\* a publisher's submissions processed concurrently
NextQuotaRace == PostStep(Slots, Submitters)

SpecQuotaRace == Init /\ [][NextQuotaRace]_vars

\* by how much the clock is advanced: a millisecond, a code's life, a window
Advances == {1, OTP_EXPIRY, RATE_LIMIT_WINDOW}

\* one address asking for codes and verifying them while time passes
NextOtp ==
    \/ \E e \in {"a@x.com", "a@x"}, c \in Codes : SendOtp(e, c)
    \/ \E c \in Codes : VerifyCode("a@x.com", c)
    \/ cleanupExpiredOTPs
    \/ \E d \in Advances : Tick(d)

SpecOtp == Init /\ [][NextOtp]_vars

\* both limiters at work: a citizen's submissions, one after another, beside
\* requests for codes
NextLimits ==
    \/ PostStep({"a"}, Submitters)
    \/ \E e \in BodyEmails : SendOtp(e, "111111")
    \/ Tick(RATE_LIMIT_WINDOW + 1)

SpecLimits == Init /\ [][NextLimits]_vars

\* the steps of the sign-in requests held in the slots ss
LoginStep(ss) ==
    \/ \E s \in ss : LoginFindUnique(s)
    \/ \E s \in ss : LoginCreate(s)
    \/ \E s \in ss : LoginUpdate(s)
    \/ \E s \in ss : LoginStoreError(s)

\* concurrent sign-in requests of one address, with and without a candidate
NextVerifyRace ==
    \/ \E c \in Codes : SendOtp("a@x.com", c)
    \/ \E s \in Slots, c \in Codes \cup {None}, n \in LoginNames :
           VerifyOtp(s, "a@x.com", c, n)
    \/ LoginStep(Slots)

SpecVerifyRace == Init /\ [][NextVerifyRace]_vars

\* codes that are asked for and never verified, the clock advancing by the
\* sweep's interval and the timer running the sweep
NextSweep ==
    \/ \E e \in Emails : SendOtp(e, "111111")
    \/ Tick(SweepInterval)
    \/ cleanupExpiredOTPs

\* setInterval keeps firing and time keeps passing
SpecSweep ==
    /\ Init /\ [][NextSweep]_vars
    /\ WF_vars(cleanupExpiredOTPs)
    /\ WF_vars(Tick(SweepInterval))

\* who sends edit and delete requests: the publisher, another publisher and a
\* moderator
Changers == {"u1", "u2", "m2"}

\* a publisher's edits and deletes, and others', beside a moderator's decisions
NextEdit ==
    \/ \E u \in Submitters, c \in SubmitCoords : Submit(u, c[1], c[2])
    \/ \E u \in Changers, id \in IncidentIds : EditFind("a", u, id)
    \/ EditUpdate("a")
    \/ \E u \in Changers, id \in IncidentIds : DeleteFind("a", u, id)
    \/ DeleteRow("a")
    \/ DecideStep("m1", {None})

SpecEdit == Init /\ [][NextEdit]_vars

\* offices opening and closing between a submission and its decision
NextJurisdiction ==
    \/ \E u \in Submitters, c \in SubmitCoords : Submit(u, c[1], c[2])
    \/ \E sid \in StationIds, b \in BOOLEAN : UpdateStation("m1", sid, b)
    \/ DecideStep("m1", {None})

SpecJurisdiction == Init /\ [][NextJurisdiction]_vars

\* an administrator deleting offices beside submissions, decisions and
\* office updates
NextRemoval ==
    \/ \E u \in Submitters, c \in SubmitCoords : Submit(u, c[1], c[2])
    \/ \E u \in Mods, sid \in StationIds : RemoveStationFind(u, sid)
    \/ RemoveStationCount
    \/ RemoveStationDeactivate
    \/ RemoveStationDelete
    \/ \E sid \in StationIds, b \in BOOLEAN : UpdateStation("m1", sid, b)
    \/ DecideStep("m1", {None})

SpecRemoval == Init /\ [][NextRemoval]_vars

\* one address asking for codes and verifying them while the mails go out or
\* fail behind the requests
NextMail ==
    \/ \E c \in Codes : SendOtp("a@x.com", c)
    \/ \E ok \in BOOLEAN : SettleMail(ok)
    \/ \E c \in Codes : VerifyCode("a@x.com", c)

SpecMail == Init /\ [][NextMail]_vars

\* errors arriving at the top-level handler, in each environment
SpecErrors ==
    Init /\ [][\E err \in AppErrors \cup UnexpectedErrors,
                  env \in {"development", "production", None} :
                    HandleError(err, env)]_vars

\* an address signing in by code and using its tokens while the moderators
\* suspend, restore, promote and demote its account
SpecLogin ==
    Init /\ [][\/ SendOtp("a@x.com", "111111")
               \/ \E c \in Codes, n \in LoginNames : VerifyOtp("a", "a@x.com", c, n)
               \/ LoginStep({"a"})
               \/ \E m \in Mods, body \in UserBodies : UpdateAccount(m, "a@x.com", body)
               \/ \E token \in tokens, roles \in {{"ADMIN", "MODERATOR"}, {"ADMIN"}} :
                      Request(token, roles)]_vars

\* ---- decisions on the incidents of a publisher whose score has come down
\* the scores the publisher u1 starts from: the default, and the scores left
\* after DefaultCredibility - 1 and DefaultCredibility rejected incidents
LowScores == {0, 1, DefaultCredibility}

InitScore ==
    /\ \E n \in LowScores :
          users = [u \in UserIds |->
                      [role |-> CASE u = "u1" -> "CITIZEN"
                                  [] u = "u2" -> "VERIFIED_REPORTER"
                                  [] u = "m1" -> "ADMIN"
                                  [] u = "m2" -> "MODERATOR"
                                  [] OTHER -> "POLICE",
                       isActive |-> TRUE,
                       credibilityScore |-> IF u = "u1" THEN n ELSE DefaultCredibility,
                       policeStationId |-> IF u \in Officers THEN "s2" ELSE None]]
    /\ policeStations = [s \in StationIds |->
                  [latitude |-> IF s = "s1" THEN 0 ELSE 1,
                   longitude |-> IF s = "s1" THEN 0 ELSE 1,
                   isActive |-> TRUE]]
    /\ InitEmpty

NextScore ==
    \/ \E u \in Submitters, c \in SubmitCoords : Submit(u, c[1], c[2])
    \/ DecideStep("m1", {None})

SpecScore == InitScore /\ [][NextScore]_vars

\* ---- the two station scans as functions of the coordinate and the offices
\* the offices on file, the places an office can stand at and the coordinates
\* an incident can have: two offices can be equally far from (0, 0), and
\* (82, 0) is antipodal to (-82, -180)
ResolverStations == {"s1", "s2", "s3"}
StationPoints == {<<0, 1>>, <<1, 0>>, <<82, 0>>}
ResolverCoords == {<<0, 0>>, <<1, 1>>, <<-82, -180>>}

\* any police_stations table of three rows over StationPoints
InitResolver ==
    /\ InitUsers
    /\ policeStations \in
          [ResolverStations ->
              {[latitude |-> p[1], longitude |-> p[2], isActive |-> b] :
                   p \in StationPoints, b \in BOOLEAN}]
    /\ InitEmpty

\* the station POST /incidents assigns and the station findNearestPoliceStation
\* returns to the decision, for one coordinate and the offices on file
Resolve(lat, lon) ==
    /\ resp' = [op |-> "resolve", latitude |-> lat, longitude |-> lon,
                submitted |-> nearestStation(lat, lon, policeStations),
                verified |-> findNearestPoliceStation(lat, lon, policeStations)]
    /\ UNCHANGED <<dbVars, procVars, decisions, reviews, limitVars, reqVars>>

NextResolver == \E c \in ResolverCoords : Resolve(c[1], c[2])

SpecResolver == InitResolver /\ [][NextResolver]_vars


\* ================================================================ properties
ModeratorTier == {"ADMIN", "MODERATOR"}
Decidable == {"VERIFIED", "REJECTED", "TAKEN_DOWN"}

\* the transitions a moderator action may make
LegalEdges == {<<"SUBMITTED", "VERIFIED">>, <<"SUBMITTED", "REJECTED">>,
               <<"SUBMITTED", "TAKEN_DOWN">>, <<"VERIFIED", "TAKEN_DOWN">>}

\* C1: a moderator action (a status decision or a report review with
\* takeDownIncident) writes an incident's status only along SUBMITTED->VERIFIED,
\* SUBMITTED->REJECTED, SUBMITTED->TAKEN_DOWN or VERIFIED->TAKEN_DOWN: a decision
\* that found the incident in any other status for what it asks (re-verifying a
\* VERIFIED incident included) writes nothing, and so does a review.
C1_ModeratorTransitionsLegal ==
    [][/\ \A m \in Mods :
            (pc[m] = "update" /\ pc'[m] = "notifyPublisher") =>
                <<incident[m].status, incidents'[req[m].id].status>> \in LegalEdges
       /\ \A i \in DOMAIN incidents \cap DOMAIN incidents' :
            (reviews' # reviews /\ incidents'[i] # incidents[i]) =>
                <<incidents[i].status, incidents'[i].status>> \in LegalEdges]_vars

\* C2: two decisions on the same incident serialize: a decision writes the
\* incident, and goes on to its side effects, only if the incident still has the
\* status the decision read; the one that finds it changed is refused.
C2_DecisionsSerialize ==
    [][\A m \in Mods :
          (pc[m] = "update" /\ pc'[m] = "notifyPublisher") =>
              incidents[req[m].id].status = incident[m].status]_vars

\* who may be shown a row that is not VERIFIED
MayBeShown(reader, publisherId, status) ==
    \/ status = "VERIFIED"
    \/ reader = publisherId
    \/ reader \in UserIds /\ users[reader].role \in ModeratorTier

\* C3: the feed returns a non-VERIFIED incident only to its publisher or to an
\* ADMIN or MODERATOR, whatever status filter the reader asks for.
C3_FeedShowsOnlyVisible ==
    resp.op = "feed" =>
        \A r \in resp.incidents : MayBeShown(resp.reader, r.publisherId, r.status)

\* C4: a read of one incident by id is answered with the incident only if it is
\* VERIFIED, or the reader is its publisher or an ADMIN or MODERATOR; every
\* other read is answered 404 and leaves the incident as it is (no view
\* counted).
C4_ReadOnlyVisible ==
    [][resp'.op = "get" =>
          LET shown == /\ resp'.id \in DOMAIN incidents
                       /\ MayBeShown(resp'.reader,
                                     incidents[resp'.id].publisherId,
                                     incidents[resp'.id].status)
          IN  /\ resp'.code = 200 => shown
              /\ ~shown => resp'.code = 404 /\ incidents' = incidents]_vars

\* a reader who is neither the publisher nor a moderator was refused a stored
\* incident that is not VERIFIED
C4_Witness ==
    /\ resp.op = "get" /\ resp.code = 404 /\ resp.reader = "u2"
    /\ resp.id \in DOMAIN incidents
    /\ incidents[resp.id].status = "REJECTED"
    /\ incidents[resp.id].viewCount = 0

\* C5: every stored incident's status is one of DRAFT, SUBMITTED, VERIFIED,
\* REJECTED, TAKEN_DOWN, and every incident starts in SUBMITTED.
C5_StatusInEnumeration ==
    /\ [](\A i \in DOMAIN incidents :
            incidents[i].status \in
                {"DRAFT", "SUBMITTED", "VERIFIED", "REJECTED", "TAKEN_DOWN"})
    /\ [][\A i \in DOMAIN incidents' \ DOMAIN incidents :
             incidents'[i].status = "SUBMITTED"]_vars

\* an incident that was decided, then edited back to SUBMITTED, while a report
\* on it was reviewed
C5_Witness ==
    \E i \in DOMAIN incidents :
        /\ incidents[i].status = "SUBMITTED"
        /\ incidents[i].verifiedBy = "m1"
        /\ \E r \in DOMAIN reports : reports[r].status = "ACTION_TAKEN"

\* C6: a decision whose requested status is not VERIFIED, REJECTED or TAKEN_DOWN
\* is answered 400 and changes no table: no incident, notification, score or
\* audit entry.
C6_InvalidStatusRefused ==
    [][(resp'.op = "decide" /\ resp'.status \notin Decidable) =>
          /\ resp'.code = 400
          /\ UNCHANGED dbVars]_vars

\* a decision asking for SUBMITTED was refused while an incident was stored
C6_Witness ==
    /\ resp.op = "decide" /\ resp.code = 400 /\ resp.status = "SUBMITTED"
    /\ DOMAIN incidents # {}

\* C7: a reader is never answered with an incident as VERIFIED while the verify
\* decision that made it so is still between its status write (which carries the
\* jurisdiction) and the publisher's +2.
C7_VerifiedOnlyWithEffects ==
    (resp.op = "get" /\ resp.code = 200 /\ resp.incident.status = "VERIFIED") =>
        \A m \in Mods :
            (/\ req[m].id = resp.id /\ req[m].status = "VERIFIED"
             /\ resp.incident.verifiedBy = m)
                => pc[m] \notin {"notifyPublisher", "credibility"}

\* an audit entry of the decision that incident i shows
HasAuditEntry(i) ==
    \E k \in 1..Len(auditLog) :
        /\ auditLog[k].targetId = i
        /\ auditLog[k].adminId = incidents[i].verifiedBy
        /\ auditLog[k].action =
               (CASE incidents[i].status = "VERIFIED" -> "VERIFY_INCIDENT"
                  [] incidents[i].status = "REJECTED" -> "REJECT_INCIDENT"
                  [] OTHER -> "TAKEDOWN_INCIDENT")

\* C8: the status write and the audit entry succeed or fail together: once the
\* deciding moderator's request is over, a decided incident has the audit entry
\* of its decision, also when a store call of the decision failed.
C8_DecidedHasAuditEntry ==
    \A i \in DOMAIN incidents :
        (/\ incidents[i].status \in Decidable
         /\ pc[incidents[i].verifiedBy] = "idle")
            => HasAuditEntry(i)

\* C9: a take-down cascaded from a report review appends one TAKEDOWN_INCIDENT
\* audit entry for the incident and creates one notification for its publisher,
\* like a direct TAKEN_DOWN decision.
C9_ReviewTakedownAudited ==
    [][\A i \in DOMAIN incidents :
          (/\ reviews' # reviews
           /\ resp'.code = 200
           /\ incidents'[i] # incidents[i]
           /\ incidents'[i].status = "TAKEN_DOWN")
              => /\ Len(auditLog') = Len(auditLog) + 1
                 /\ auditLog'[Len(auditLog')].action = "TAKEDOWN_INCIDENT"
                 /\ auditLog'[Len(auditLog')].targetId = i
                 /\ BagCardinality(notifications') =
                        BagCardinality(notifications) + 1]_vars

\* the change of u's score in this step
ScoreChange(u) == users'[u].credibilityScore - users[u].credibilityScore

\* C10: a decision changes its incident's publisher's score by exactly +2 for
\* VERIFIED, -1 for REJECTED and 0 for TAKEN_DOWN, once, on its way to the audit
\* entry, and no step changes any other score.
C10_TrustScoreDelta ==
    [][/\ \A m \in Mods :
            (pc[m] \in {"notifyPublisher", "credibility"} /\ pc'[m] = "audit") =>
                ScoreChange(incident[m].publisherId) =
                    (CASE req[m].status = "VERIFIED" -> 2
                       [] req[m].status = "REJECTED" -> -1
                       [] OTHER -> 0)
       /\ \A u \in UserIds :
            ScoreChange(u) # 0 =>
                \E m \in Mods : /\ pc[m] = "credibility" /\ pc'[m] = "audit"
                                /\ incident[m].publisherId = u]_vars

\* the publisher was credited for one decision and debited for another, both
\* accepted, and nobody else's score moved
C10_Witness ==
    /\ users["u1"].credibilityScore = DefaultCredibility + 1
    /\ Len(auditLog) = 2
    /\ \A u \in UserIds \ {"u1"} : users[u].credibilityScore = DefaultCredibility

\* C11: each accepted decision appends exactly one audit entry: its action is
\* VERIFY_INCIDENT, REJECT_INCIDENT or TAKEDOWN_INCIDENT by the new status, its
\* target the decided incident, its moderator the one deciding; and nothing but
\* an accepted decision appends to the audit trail.
C11_AcceptedDecisionAudited ==
    [][/\ \A m \in Mods :
            (pc[m] # "idle" /\ pc'[m] = "idle" /\ resp'.code = 200) =>
                /\ Len(auditLog') = Len(auditLog) + 1
                /\ SubSeq(auditLog', 1, Len(auditLog)) = auditLog
                /\ auditLog'[Len(auditLog')].adminId = m
                /\ auditLog'[Len(auditLog')].targetId = req[m].id
                /\ auditLog'[Len(auditLog')].action =
                       (CASE req[m].status = "VERIFIED" -> "VERIFY_INCIDENT"
                          [] req[m].status = "REJECTED" -> "REJECT_INCIDENT"
                          [] req[m].status = "TAKEN_DOWN" -> "TAKEDOWN_INCIDENT")
       /\ auditLog' # auditLog =>
            \E m \in Mods : pc[m] # "idle" /\ pc'[m] = "idle" /\ resp'.code = 200]_vars

\* m2's take-down was accepted and is the last entry of the audit trail
C11_Witness ==
    /\ resp.op = "decide" /\ resp.code = 200 /\ resp.status = "TAKEN_DOWN"
    /\ Len(auditLog) = 2
    /\ auditLog[2].action = "TAKEDOWN_INCIDENT" /\ auditLog[2].adminId = "m2"

\* the notifications a step creates
Created == notifications' (-) notifications

\* C12: a decision creates exactly one notification for the publisher, on its
\* way from the status write to the audit entry, and notifications for the
\* active POLICE users of the office it assigns only when it asks for VERIFIED;
\* a REJECTED or TAKEN_DOWN decision creates no other notification.
C12_DecisionNotifications ==
    [][\A m \in Mods :
          pc'[m] # pc[m] =>
            /\ (pc'[m] = "idle" /\ resp'.code = 200) => pc[m] = "audit"
            /\ pc'[m] = "audit" => pc[m] \in {"notifyPublisher", "credibility"}
            /\ pc'[m] = "credibility" => pc[m] = "notifyPublisher"
            /\ pc'[m] = "notifyPublisher" => pc[m] = "update"
            /\ IF pc[m] = "notifyPublisher" /\ pc'[m] # "idle"
               THEN /\ BagCardinality(Created) = 1
                    /\ \A n \in BagToSet(Created) :
                          /\ n.userId = incident[m].publisherId
                          /\ n.type \in {"INCIDENT_VERIFIED", "INCIDENT_REJECTED",
                                         "INCIDENT_REPORTED"}
               ELSE notifications' # notifications =>
                    /\ req[m].status = "VERIFIED"
                    /\ \A n \in BagToSet(Created) :
                          /\ n.type = "NEW_INCIDENT_NEARBY"
                          /\ CopiesIn(n, Created) = 1
                          /\ users[n.userId].role = "POLICE"
                          /\ users[n.userId].isActive
                          /\ users[n.userId].policeStationId = policeStationId[m]]_vars

\* a verification was accepted after the officer of the assigned office and the
\* publisher were notified once each
C12_Witness ==
    /\ resp.op = "decide" /\ resp.code = 200 /\ resp.status = "VERIFIED"
    /\ CopiesIn(Notification("p1", "NEW_INCIDENT_NEARBY"), notifications) = 1
    /\ CopiesIn(Notification("u1", "INCIDENT_VERIFIED"), notifications) = 1
    /\ BagCardinality(notifications) = 2

\* C13: a failure to write the office staff's or the publisher's notification
\* does not fail the decision: a decision that is at one of its notification
\* writes is never answered with an error there.
C13_NotificationFailureTolerated ==
    [][\A m \in Mods :
          pc[m] \in {"notifyStation", "notifyPublisher"} =>
              ~(pc'[m] = "idle" /\ resp'.code = 500)]_vars

\* the active offices at the least distance from a coordinate
NearestOffices(lat, lon) ==
    {s \in StationIds :
        /\ policeStations[s].isActive
        /\ \A t \in StationIds :
              policeStations[t].isActive =>
                  calculateDistance(lat, lon, policeStations[s].latitude,
                                    policeStations[s].longitude)
                    <= calculateDistance(lat, lon, policeStations[t].latitude,
                                         policeStations[t].longitude)}

\* C14: when a decision makes an incident VERIFIED while an office is active,
\* the jurisdiction it stores is an active office nearest to the incident's
\* coordinate, whatever that coordinate is (0 included) and whatever was
\* assigned at submission.
C14_VerifiedJurisdictionNearest ==
    [][\A m \in Mods :
          (/\ pc[m] = "update" /\ pc'[m] = "notifyPublisher"
           /\ req[m].status = "VERIFIED"
           /\ \E s \in StationIds : policeStations[s].isActive)
              => incidents'[req[m].id].policeStationId \in
                     NearestOffices(incidents[req[m].id].latitude,
                                    incidents[req[m].id].longitude)]_vars

\* the incidents a publisher has created today, and the daily ceiling of a role
PostedBy(u) == Cardinality({i \in DOMAIN incidents : incidents[i].publisherId = u})
Ceiling(u) == IF users[u].role = "VERIFIED_REPORTER" THEN 5 ELSE 2

C16_QuotaNeverExceeded ==
    \A u \in Publishers : PostedBy(u) <= Ceiling(u)

\* the count a limiter's store holds for a subject, 0 without a record
CountOf(store, e) == IF e \in DOMAIN store THEN store[e].count ELSE 0

\* C17: a denied call leaves the subject's counter as it is and each accepted
\* action raises it by exactly one (for a code request also by starting a new
\* window at one), for the hourly and the daily limiter alike; a submission
\* that passed the quota check and is then refused by validation, or whose
\* incident is not created, leaves the daily counter as it is.
C17_CountersFollowAcceptance ==
    [][/\ resp'.op = "send-otp" =>
            LET e == resp'.email
            IN  /\ dailyPostTracker' = dailyPostTracker
                /\ resp'.code # 200 => rateLimitStore' = rateLimitStore
                /\ resp'.code = 200 =>
                      /\ \A x \in DOMAIN rateLimitStore \ {e} :
                            /\ x \in DOMAIN rateLimitStore'
                            /\ rateLimitStore'[x] = rateLimitStore[x]
                      /\ \/ CountOf(rateLimitStore', e) = CountOf(rateLimitStore, e) + 1
                         \/ /\ CountOf(rateLimitStore', e) = 1
                            /\ now >= rateLimitStore[e].resetAt
       /\ resp'.op = "submit" =>
            /\ rateLimitStore' = rateLimitStore
            /\ resp'.code # 201 => dailyPostTracker' = dailyPostTracker
            /\ resp'.code = 201 =>
                  dailyPostTracker' =
                      [dailyPostTracker EXCEPT ![resp'.userId] = @ + 1]
       /\ resp'.op \notin {"send-otp", "submit"} =>
            /\ rateLimitStore' = rateLimitStore
            /\ dailyPostTracker' = dailyPostTracker]_vars

\* a code request was denied at the ceiling, after the citizen had one
\* submission counted and two refused after the quota check
C17_Witness ==
    /\ resp.op = "send-otp" /\ resp.code = 429
    /\ rateLimitStore[resp.email].count = 5
    /\ posts = 3 /\ post["a"].pc = "idle"
    /\ dailyPostTracker["u1"] = 1 /\ PostedBy("u1") = 1

\* C18: for an address's code requests, with N = 5 and W = 1 hour from the
\* window's first request: a first request, or one made after the window (more
\* than W after its first request; the window's last instant belongs to it),
\* is allowed and starts a new window with the counter at one; inside the
\* window exactly the first N requests are allowed, and a further one is
\* denied with a reported wait of at most W and changes nothing.
C18_HourlyWindow ==
    [][(resp'.op = "send-otp" /\ resp'.code # 400) =>
          LET e == resp'.email
          IN  IF e \notin DOMAIN rateLimitStore
              THEN /\ resp'.code = 200
                   /\ rateLimitStore'[e] = [count |-> 1, resetAt |-> now + 3600000]
              ELSE IF now - (rateLimitStore[e].resetAt - 3600000) > 3600000
              THEN /\ resp'.code = 200
                   /\ rateLimitStore'[e] = [count |-> 1, resetAt |-> now + 3600000]
              ELSE IF rateLimitStore[e].count < 5
              THEN /\ resp'.code = 200
                   /\ rateLimitStore'[e] =
                          [rateLimitStore[e] EXCEPT !.count = @ + 1]
              ELSE /\ resp'.code = 429
                   /\ resp'.minutes * 60000 <= 3600000
                   /\ rateLimitStore' = rateLimitStore
                   /\ otpStore' = otpStore]_vars

\* after the first window was over, a new one started, its five requests were
\* allowed and the next one is denied with a wait of at most an hour
C18_Witness ==
    /\ resp.op = "send-otp" /\ resp.code = 429 /\ resp.email = "a@x.com"
    /\ rateLimitStore["a@x.com"].count = 5
    /\ rateLimitStore["a@x.com"].resetAt > 2 * 3600000
    /\ resp.minutes \in 1..60

\* C19: once three wrong guesses were made on a stored code, every later
\* verify fails until a new code is stored: a verify without a record, or on a
\* record with three attempts, fails whatever the candidate and leaves no
\* record; a failed verify that keeps the record counts one attempt; and only
\* storing a new code brings a record, with no attempts.
C19_ExhaustedCodeUnusable ==
    [][/\ resp'.op = "verify-otp" =>
            LET e == resp'.email
            IN  /\ (e \notin DOMAIN otpStore \/ otpStore[e].attempts >= 3) =>
                      ~resp'.success /\ e \notin DOMAIN otpStore'
                /\ (~resp'.success /\ e \in DOMAIN otpStore') =>
                      otpStore'[e] = [otpStore[e] EXCEPT !.attempts = @ + 1]
                /\ resp'.success => e \notin DOMAIN otpStore'
       /\ \A e \in DOMAIN otpStore' :
            (/\ ~(resp'.op = "verify-otp" /\ resp'.email = e)
             /\ (IF e \in DOMAIN otpStore THEN otpStore'[e] # otpStore[e] ELSE TRUE))
              => /\ resp'.op = "send-otp" /\ resp'.code = 200 /\ resp'.email = e
                 /\ otpStore'[e].attempts = 0]_vars

\* the fourth verify after three wrong guesses was refused and left no record
C19_Witness ==
    /\ resp.op = "verify-otp" /\ ~resp.success
    /\ resp.message = "Maximum attempts exceeded"
    /\ verifies = 4 /\ sends = 1
    /\ resp.email \notin DOMAIN otpStore

\* C20: the wrong guess that exhausts the attempts deletes the record: when a
\* verify fails on a record that already had two attempts, no record of the
\* address is left.
C20_ExhaustingGuessDeletes ==
    [][(/\ resp'.op = "verify-otp" /\ ~resp'.success
        /\ resp'.email \in DOMAIN otpStore
        /\ otpStore[resp'.email].attempts >= 2)
          => resp'.email \notin DOMAIN otpStore']_vars

\* no record of address e holds the code c
NoRecordWith(e, c) == e \notin DOMAIN otpStore \/ otpStore[e].otp # c

\* C21: two successive verify calls for an address with the same candidate,
\* with no code stored for it in between, never both succeed, the second one
\* fails: a verify succeeds only against a record that holds its candidate;
\* after a verify, successful or not, no record of the address holds its
\* candidate; and that stays so until a new code is stored for the address.
C21_SecondVerifyFails ==
    [][/\ resp'.op = "verify-otp" =>
            /\ resp'.success => ~NoRecordWith(resp'.email, resp'.otp)
            /\ \/ resp'.email \notin DOMAIN otpStore'
               \/ otpStore'[resp'.email].otp # resp'.otp
       /\ \A e \in Emails, c \in Codes :
            (/\ NoRecordWith(e, c)
             /\ ~(resp'.op = "send-otp" /\ resp'.code = 200 /\ resp'.email = e))
                => NoRecordWith(e, c)'
       /\ (/\ resp.op = "verify-otp" /\ resp'.op = "verify-otp"
           /\ resp'.email = resp.email /\ resp'.otp = resp.otp)
              => ~resp'.success]_vars

\* the code mailed to the address was verified, and the next verify with the
\* same candidate, the only code ever stored, found no record
C21_Witness ==
    /\ resp.op = "verify-otp" /\ ~resp.success
    /\ resp.message = "OTP not found or expired"
    /\ sends = 1 /\ verifies = 2 /\ ticks = 0
    /\ resp.email \in DOMAIN outbox
    /\ resp.otp = outbox[resp.email]

\* C22: a verify succeeds only within 5 minutes of the code being stored; a
\* verify made after the record's expiry time fails whatever the candidate, the
\* correct code included, and deletes the record; and a record is created with
\* zero attempts and an expiry 5 minutes after its creation.
C22_CodeLivesFiveMinutes ==
    [][/\ resp'.op = "verify-otp" =>
            LET e == resp'.email
            IN  /\ resp'.success =>
                      /\ e \in DOMAIN otpStore
                      /\ now - otpStore[e].createdAt <= 5 * 60 * 1000
                /\ (e \in DOMAIN otpStore /\ now > otpStore[e].expiresAt) =>
                      /\ ~resp'.success
                      /\ e \notin DOMAIN otpStore'
       /\ (resp'.op = "send-otp" /\ resp'.code = 200) =>
            otpStore'[resp'.email] =
                [otp |-> outbox'[resp'.email], attempts |-> 0, createdAt |-> now,
                 expiresAt |-> now + 5 * 60 * 1000]]_vars

\* the code mailed to the address was refused as expired right after its five
\* minutes, and its record is gone
C22_Witness ==
    /\ resp.op = "verify-otp" /\ ~resp.success
    /\ resp.message = "OTP expired"
    /\ resp.otp = outbox[resp.email]
    /\ sends = 1 /\ verifies = 1 /\ now = 5 * 60 * 1000 + 1
    /\ resp.email \notin DOMAIN otpStore

\* C23: verify is atomic per address under every interleaving of the sign-in
\* requests: the step in which a verify succeeds is the step that removes the
\* record it matched, so no other request succeeds on that stored code; each
\* wrong guess is charged on the attempt count as it stands at the guess, one
\* per guess; and no step of a request other than its verify touches a record.
C23_VerifyAtomicPerAddress ==
    [][/\ resp'.op = "verify-otp" =>
            LET e == resp'.email
            IN  /\ resp'.success =>
                      /\ e \in DOMAIN otpStore /\ otpStore[e].otp = resp'.otp
                      /\ e \notin DOMAIN otpStore'
                      /\ \E s \in Slots :
                            /\ login[s].pc = "idle" /\ login'[s].pc = "findUnique"
                            /\ \A t \in Slots \ {s} : login'[t] = login[t]
                /\ resp'.message = "Invalid OTP" =>
                      /\ e \in DOMAIN otpStore'
                      /\ otpStore'[e].attempts = otpStore[e].attempts + 1
                      /\ otpStore'[e].otp = otpStore[e].otp
                      /\ login' = login
       /\ resp'.op \notin {"verify-otp", "send-otp"} => otpStore' = otpStore
       /\ \A s \in Slots :
            (login[s].pc = "idle" /\ login'[s].pc # "idle") =>
                resp'.op = "verify-otp" /\ resp'.success]_vars

\* while a request that verified an earlier code is still signing in, two
\* wrong guesses on the address's next code were charged one attempt each
C23_Witness ==
    /\ resp.op = "verify-otp" /\ resp.message = "Invalid OTP"
    /\ sends = 2 /\ verifies = 3
    /\ \E s \in Slots : login[s].pc = "findUnique"
    /\ otpStore["a@x.com"].attempts = 2

\* the instants at which a code can have been stored
StoreTimes == {k * SweepInterval : k \in 0..MaxTicks}

\* C24: a run of the sweep (the step of the timer: nothing is answered and
\* the clock stands) removes every record whose expiry time has passed and
\* leaves every other record as it is; and with the sweep running
\* periodically, a code stored while the clock still advances and never
\* verified is eventually gone from the store.
C24_SweepRemovesExpired ==
    /\ [][(resp'.op = None /\ now' = now) =>
             /\ DOMAIN otpStore' =
                    {e \in DOMAIN otpStore : ~(now > otpStore[e].expiresAt)}
             /\ \A e \in DOMAIN otpStore' : otpStore'[e] = otpStore[e]]_vars
    /\ \A e \in Emails, t \in StoreTimes :
          []((e \in DOMAIN otpStore /\ otpStore[e].createdAt = t
                  /\ ticks < MaxTicks)
               => <>(e \notin DOMAIN otpStore \/ otpStore[e].createdAt # t))

\* a sweep has removed the expired record of one address and left the other
\* address's record, stored after it and unexpired
C24_Witness ==
    /\ resp.op = None /\ now = SweepInterval
    /\ DOMAIN otpStore = {"b@x.com"}
    /\ DOMAIN outbox = {"a@x.com", "b@x.com"}
    /\ otpStore["b@x.com"].createdAt = SweepInterval

\* a verify with a candidate other than the stored code, on a record with
\* fewer than three attempts, in this step
MismatchOnOpenRecord ==
    /\ resp'.op = "verify-otp"
    /\ resp'.email \in DOMAIN otpStore
    /\ otpStore[resp'.email].otp # resp'.otp
    /\ otpStore[resp'.email].attempts < 3

\* the step raises the record's counter by one and keeps the record
ChargedAndKept ==
    /\ resp'.email \in DOMAIN otpStore'
    /\ otpStore'[resp'.email] =
           [otpStore[resp'.email] EXCEPT !.attempts = @ + 1]

\* C25 as stated: every stored record's attempt counter is between 0 and 3,
\* and a mismatching verify on a record with fewer than 3 attempts raises the
\* counter by exactly one and keeps the record.
C25_MismatchChargedAndKept ==
    /\ [](\A e \in DOMAIN otpStore : otpStore[e].attempts \in 0..3)
    /\ [][MismatchOnOpenRecord => ChargedAndKept]_vars

\* C25, amended: every stored record's attempt counter is between 0 and 3, and
\* a mismatching verify on an unexpired record with fewer than 3 attempts
\* raises the counter by exactly one and keeps the record; on an expired
\* record it deletes the record, counting nothing.
C25_AttemptsBounded ==
    /\ [](\A e \in DOMAIN otpStore : otpStore[e].attempts \in 0..3)
    /\ [][MismatchOnOpenRecord =>
             IF now > otpStore[resp'.email].expiresAt
             THEN resp'.email \notin DOMAIN otpStore'
             ELSE ChargedAndKept /\ resp'.message = "Invalid OTP"]_vars

\* the third wrong guess on an unexpired record was counted: three attempts,
\* and the record is still stored
C25_Witness ==
    /\ resp.op = "verify-otp" /\ resp.message = "Invalid OTP"
    /\ resp.email \in DOMAIN otpStore
    /\ otpStore[resp.email].attempts = 3
    /\ resp.otp # otpStore[resp.email].otp

\* C26: an edit succeeds, and writes, only on an incident whose status is
\* DRAFT, SUBMITTED or REJECTED and leaves it SUBMITTED; an edit of an incident
\* that is VERIFIED or TAKEN_DOWN is refused with 400 and leaves it as it is;
\* and an edit by a user other than the publisher is refused and leaves it as
\* it is.
C26_EditOnlyWhenEditable ==
    [][(resp'.op = "edit" /\ resp'.id \in DOMAIN incidents) =>
          LET row == incidents[resp'.id]
          IN  /\ resp'.code = 200 =>
                    /\ row.status \in {"DRAFT", "SUBMITTED", "REJECTED"}
                    /\ row.publisherId = resp'.userId
                    /\ incidents'[resp'.id] = [row EXCEPT !.status = "SUBMITTED"]
              /\ resp'.code # 200 => incidents' = incidents
              /\ row.status \in {"VERIFIED", "TAKEN_DOWN"} =>
                    /\ resp'.code \in {400, 403}
                    /\ incidents' = incidents
              /\ row.publisherId # resp'.userId => resp'.code = 403]_vars

\* C27: a delete request removes the incident only if the requester is its
\* publisher and the incident is not VERIFIED, or the requester's role is ADMIN
\* or MODERATOR; every other request is refused and the incident stays stored
\* as it is.
C27_DeleteOnlyWhenAllowed ==
    [][(resp'.op = "delete" /\ resp'.id \in DOMAIN incidents) =>
          LET row == incidents[resp'.id]
              allowed == \/ /\ row.publisherId = resp'.userId
                            /\ row.status # "VERIFIED"
                         \/ users[resp'.userId].role \in {"ADMIN", "MODERATOR"}
          IN  /\ resp'.id \notin DOMAIN incidents' => allowed
              /\ ~allowed => /\ resp'.code \in {400, 403}
                             /\ incidents' = incidents]_vars

\* C30: for every incident, the moderation note, the moderator identity and
\* the moderation timestamp are all set or all absent, also after a decision
\* sent without a note.
C30_ModerationFieldsTogether ==
    \A i \in DOMAIN incidents :
        /\ (incidents[i].verificationNote = None) = (incidents[i].verifiedBy = None)
        /\ (incidents[i].verifiedBy = None) = (incidents[i].verifiedAt = None)

\* the great-circle distance in metres the spec's "nearest" is about: the
\* value of the haversine formula, and half the circumference (pi * 6371 km)
\* between antipodal points, where the code's arithmetic yields no number
GreatCircle(lat1, lon1, lat2, lon2) ==
    IF calculateDistance(lat1, lon1, lat2, lon2) = NaN THEN 20015087
    ELSE calculateDistance(lat1, lon1, lat2, lon2)

ActiveOffices == {s \in DOMAIN policeStations : policeStations[s].isActive}

OfficeDistance(lat, lon, s) ==
    GreatCircle(lat, lon, policeStations[s].latitude, policeStations[s].longitude)

\* the active offices no other active office is nearer to the coordinate than
NearestActive(lat, lon) ==
    {s \in ActiveOffices :
        \A t \in ActiveOffices : OfficeDistance(lat, lon, s) <= OfficeDistance(lat, lon, t)}

\* C28: for any coordinate and any set of offices, each resolver (the scan at
\* submission and findNearestPoliceStation at verification) returns none when
\* no office is active, and otherwise an active office whose distance to the
\* coordinate is at most that of every other active office.
C28_ResolverNearestActive ==
    resp.op = "resolve" =>
        \A r \in {resp.submitted, resp.verified} :
            IF ActiveOffices = {} THEN r = None
            ELSE r \in NearestActive(resp.latitude, resp.longitude)

\* the first office, in the order the table is read, among the nearest active
FirstNearest(lat, lon) ==
    LET all == ActiveStations(policeStations)
    IN  all[CHOOSE i \in 1..Len(all) :
                /\ all[i] \in NearestActive(lat, lon)
                /\ \A j \in 1..(i - 1) : all[j] \notin NearestActive(lat, lon)]

\* C29: when several active offices are at the same minimal distance from
\* the coordinate, each resolver returns the first of them in the order of
\* its input.
C29_TieGoesToFirst ==
    (/\ resp.op = "resolve"
     /\ Cardinality(NearestActive(resp.latitude, resp.longitude)) > 1)
        => /\ resp.submitted = FirstNearest(resp.latitude, resp.longitude)
           /\ resp.verified = FirstNearest(resp.latitude, resp.longitude)


\* C31: an incident that is VERIFIED with a jurisdiction set keeps a
\* jurisdiction whatever happens next (a decision, an office update,
\* deactivation or delete request), and a delete request answered for an
\* office that has linked incidents leaves the office on file, inactive, and
\* every incident as it was.
C31_JurisdictionNeverCleared ==
    [][/\ \A i \in DOMAIN incidents \cap DOMAIN incidents' :
             (/\ incidents[i].status = "VERIFIED"
              /\ incidents[i].policeStationId # None)
                 => incidents'[i].policeStationId # None
       /\ (/\ resp'.op = "remove-station" /\ resp'.code = 200
           /\ LinkedIncidents(resp'.id) # {})
              => /\ resp'.id \in DOMAIN policeStations'
                 /\ ~policeStations'[resp'.id].isActive
                 /\ incidents' = incidents]_vars

\* C32: whatever decisions are made, every publisher's trust score stays at
\* or above zero.
C32_TrustScoreFloor ==
    \A u \in UserIds : users[u].credibilityScore >= 0

\* C33: a code request that passes the rate limit is answered 200 with the
\* code stored, whatever becomes of the mails; and a mail that settles, sent or
\* failed, sends no response and leaves the stored codes and the limiter's
\* counters as they are: a failure adds a console line and nothing else.
C33_DeliveryFailureOnlyLogged ==
    [][/\ (/\ sends' = sends + 1
           /\ resp'.email # None /\ EmailRegexTest(resp'.email)
           /\ checkRateLimit(rateLimitStore, resp'.email, now).allowed)
              => /\ resp'.op = "send-otp" /\ resp'.code = 200
                 /\ resp'.email \in DOMAIN otpStore'
                 /\ otpStore'[resp'.email].otp = outbox'[resp'.email]
                 /\ mail' = mail + 1
       /\ mail' < mail
              => /\ resp' = NoResp
                 /\ otpStore' = otpStore
                 /\ rateLimitStore' = rateLimitStore
                 /\ outbox' = outbox
                 /\ mailErrors' \in {mailErrors, mailErrors + 1}]_vars

\* the only code ever requested was verified after its mail had failed
C33_Witness ==
    /\ resp.op = "verify-otp" /\ resp.success
    /\ sends = 1 /\ mail = 0 /\ mailErrors = 1
    /\ resp.email \in DOMAIN outbox
    /\ resp.otp = outbox[resp.email]

\* C34: for an error that carries no client status code the top-level handler
\* answers 500 with the fixed generic message, never with the error's own
\* message.
C34_UnexpectedErrorGeneric ==
    (resp.op = "error" /\ "statusCode" \notin DOMAIN resp.err)
        => /\ resp.body.statusCode = 500
           /\ resp.body.message = "Internal server error"

\* C35: the audit trail is append-only: whatever a step does, the entries
\* written before it are still there afterwards, in place and unchanged, so
\* the later trail extends the earlier one.
C35_AuditAppendOnly ==
    [][/\ Len(auditLog') >= Len(auditLog)
       /\ SubSeq(auditLog', 1, Len(auditLog)) = auditLog]_vars

\* two decisions are on the trail, and the incident they were about has been
\* deleted since
C35_Witness ==
    /\ Len(auditLog) = 2
    /\ auditLog[1].targetId \notin DOMAIN incidents
    /\ auditLog[2].targetId \notin DOMAIN incidents
    /\ resp.op = "delete" /\ resp.code = 200

\* C36: a verify with the correct code on a stored, unexpired record that
\* has seen 0, 1 or 2 verifies since it was stored (all of them wrong
\* guesses) succeeds and deletes the record.
C36_CorrectCodeWithinThreeTries ==
    [][\A e \in DOMAIN otpStore :
          (/\ verifies' = verifies + 1
           /\ resp'.op = "verify-otp" /\ resp'.email = e
           /\ now <= otpStore[e].expiresAt
           /\ otpStore[e].attempts \in 0..2
           /\ resp'.otp = otpStore[e].otp)
              => /\ resp'.success
                 /\ e \notin DOMAIN otpStore']_vars

\* the third verify since the only code was stored, after two wrong guesses,
\* succeeded and deleted the record
C36_Witness ==
    /\ resp.op = "verify-otp" /\ resp.success
    /\ sends = 1 /\ verifies = 3
    /\ resp.email \in DOMAIN outbox /\ resp.otp = outbox[resp.email]
    /\ resp.email \notin DOMAIN otpStore

\* C37: an accepted code request replaces the address's record, whatever it
\* was (exhausted included): the new record holds the new code, zero attempts
\* and an expiry counted from now, and the other addresses' records stay; and
\* a verify succeeds only with the code stored last for its address.
C37_NewCodeReplacesRecord ==
    [][/\ (sends' = sends + 1 /\ resp'.op = "send-otp" /\ resp'.code = 200)
            => /\ otpStore'[resp'.email] =
                     [otp |-> outbox'[resp'.email], attempts |-> 0,
                      createdAt |-> now, expiresAt |-> now + OTP_EXPIRY]
               /\ \A e \in DOMAIN otpStore \ {resp'.email} :
                     e \in DOMAIN otpStore' /\ otpStore'[e] = otpStore[e]
       /\ (resp'.op = "verify-otp" /\ resp'.success)
            => /\ resp'.email \in DOMAIN outbox
               /\ resp'.otp = outbox[resp'.email]]_vars

\* a second code, requested after three verifies, was verified at once
C37_Witness ==
    /\ resp.op = "verify-otp" /\ resp.success
    /\ resp.message = "OTP verified successfully"
    /\ sends = 2 /\ verifies = 4 /\ ticks = 0
    /\ rateLimitStore[resp.email].count = 2

\* C38, as stated: tokens are handed out only by a sign-in request whose
\* verification succeeded and whose account is active, so none are handed out
\* for an account that is suspended; and a request whose verification fails
\* hands out none.
C38_TokensOnlyWhileActive ==
    [][/\ (resp'.op = "login" /\ resp'.tokens)
            => /\ \E s \in Slots : login[s].pc = "update" /\ login[s].email = resp'.email
               /\ resp'.email \in DOMAIN accounts
               /\ accounts[resp'.email].isActive
       /\ (resp'.op = "verify-otp" /\ ~resp'.success)
            => login' = login /\ tokens' = tokens]_vars

\* C38, amended: the code sign-in hands out tokens only at the end of a request in
\* which verifyOTP succeeded for the address and the candidate and whose
\* account, found or created, was active when the request got it; a request
\* whose verification fails, whose account is found suspended or that has no
\* name for a new account is answered without tokens.
C38_TokensOnlyAfterVerifiedActive ==
    [][/\ (tokens' # tokens \/ (resp'.op = "login" /\ resp'.tokens))
            => \E s \in Slots :
                  /\ login[s].pc = "update" /\ login'[s] = NoLogin
                  /\ resp'.op = "login" /\ resp'.code = 200
                  /\ resp'.email = login[s].email
                  /\ tokens' = tokens \cup {TokenOf(login[s])}
       /\ \A s \in Slots :
            /\ (login[s].pc = "idle" /\ login'[s].pc # "idle")
                 => /\ resp'.op = "verify-otp" /\ resp'.success
                    /\ resp'.email = login'[s].email
                    /\ resp'.email \in DOMAIN otpStore
                    /\ otpStore[resp'.email].otp = resp'.otp
                    /\ now <= otpStore[resp'.email].expiresAt
            /\ (login[s].pc # "update" /\ login'[s].pc = "update")
                 => \/ /\ login[s].pc = "findUnique"
                       /\ login[s].email \in DOMAIN accounts
                       /\ accounts[login[s].email].isActive
                       /\ login'[s].role = accounts[login[s].email].role
                    \/ /\ login[s].pc = "create"
                       /\ login[s].name # None
                       /\ login[s].email \notin DOMAIN accounts
                       /\ accounts'[login[s].email].isActive
            /\ (/\ login[s].pc = "findUnique" /\ login'[s] # login[s]
                /\ \/ /\ login[s].email \in DOMAIN accounts
                      /\ ~accounts[login[s].email].isActive
                   \/ /\ login[s].email \notin DOMAIN accounts
                      /\ login[s].name = None)
                 => /\ login'[s] = NoLogin
                    /\ resp'.op = "login" /\ resp'.code \in {400, 403, 500}
                    /\ ~resp'.tokens /\ tokens' = tokens
       /\ (resp'.op = "verify-otp" /\ ~resp'.success)
            => login' = login /\ tokens' = tokens]_vars

\* a suspended account asked for tokens with the right code and got 403 and
\* none, after an earlier sign-in of the same address had got its tokens
C38_Witness ==
    /\ resp.op = "login" /\ resp.code = 403 /\ ~resp.tokens
    /\ resp.email \in DOMAIN accounts /\ ~accounts[resp.email].isActive
    /\ Cardinality(tokens) = 1
    /\ verifies = 2

\* C39: a request with a valid token is let through only if the token's user
\* exists and is active at that time and the role stored for the user, not the
\* role in the token, is one the route allows; a missing or suspended user is
\* answered 401 and a stored role the route does not allow 403.
C39_AuthenticateUsesStoredUser ==
    resp.op = "request" =>
        LET known == resp.userId \in DOMAIN accounts
        IN  /\ resp.code = 200 <=> (/\ known
                                    /\ accounts[resp.userId].isActive
                                    /\ accounts[resp.userId].role \in resp.roles)
            /\ (~known \/ ~accounts[resp.userId].isActive) => resp.code = 401

\* a token issued to an admin is refused on an admin route after the account
\* was demoted
C39_Witness ==
    /\ resp.op = "request" /\ resp.code = 403
    /\ resp.tokenRole = "ADMIN" /\ resp.tokenRole \in resp.roles
    /\ accounts[resp.userId].isActive
    /\ accounts[resp.userId].role = "CITIZEN"

====
